---- MODULE Spec2Model ----
(***************************************************************************)
(* Model of EttaWallet's Lightning node lifecycle and chain-sync           *)
(* coordinator (src/src/ldk/index.ts) and of the wallet state store it     *)
(* writes (src/src/state/models/lightning.ts).                             *)
(*                                                                         *)
(* Every async function call is a frame; a chain of awaited calls is a     *)
(* stack of frames held in one slot of `tasks`.  The frame on top of a     *)
(* stack is the call that is running; the frames under it are suspended    *)
(* in `await`.  Each action is one resumption of one frame: the code from  *)
(* one await to the next, executed atomically as JavaScript does.  Awaits  *)
(* that neither read nor write anything another chain can see (the account *)
(* load, the storage path) are taken in the same action as the await       *)
(* before them: they commute with every step of every other chain.         *)
(***************************************************************************)
EXTENDS Integers, Sequences, FiniteSets, TLC

\* Number of independent async call chains that may be in flight at once.
MaxTasks == 1

\* The same, where the claim is about calls racing each other (SpecRace).
MaxRaceTasks == 2

\* Number of refreshLdk calls one keepLdkSynced loop is followed for.
MaxAttempts == 3

\* Number of isLdkRunning calls followed with their timing (SpecProbe).
MaxProbes == 2

\* Number of clock steps the 2 seconds of the liveness probe are divided into.
MaxTicks == 8

\* Length of the watch-list lm.watchTxs (SpecWatch).
MaxWatchTxs == 2

\* Length of the on-chain history of one script-pubkey (SpecWatch).
MaxHistory == 2

\* Length of the store's invoice list (SpecInvoices).
MaxInvoices == 2

\* The values Date.now() takes, in half seconds (SpecInvoices).
MaxClock == 6

\* Length of one contact's identifier list (SpecContacts).
MaxIdentifiers == 2

\* Length of the invoice list the store holds when events arrive (SpecEvents).
MaxEventInvoices == 1

\* Length of the openChannelIds list of one updateChannels payload (SpecChannels).
MaxChannelIds == 2

\* Highest chain tip height getBlockHeader() reports (SpecTxData, SpecWatch).
MaxTip == 3

\* Length of the store's contact list (SpecSheets).
MaxContacts == 2

\* Number of failures (err Results, exceptions, timeouts) the collaborators
\* produce in one behaviour, beyond those a stopped engine answers with.
MaxFaults == 1

VARIABLES
    LDKIsStayingSynced,     \* index.ts:38
    paymentSubscription,    \* index.ts:41
    onChannelSubscription,  \* index.ts:42
    listeners,              \* listeners registered with the node engine, per event class
    engine,                 \* the node engine: "STOPPED" or "RUNNING"
    store,                  \* the lightning store fields the coordinator writes
    tasks,                  \* the async call chains in flight
    faults,                 \* failures of collaborators so far
    width,                  \* how many chains may be in flight at once
    probe,                  \* one isLdkRunning call, with the time it takes
    watch,                  \* one checkWatchTxs call, with the calls it makes
    txCall,                 \* one _getTransactionData call, with the answers it gets
    hook,                   \* one useContactsBottomSheet instance: its state and props
    last                    \* the latest store dispatch or engine event, and the store before it

vars == <<LDKIsStayingSynced, paymentSubscription, onChannelSubscription,
          listeners, engine, store, tasks, faults, width, probe, watch, txCall, hook,
          last>>

AllSlots == 1..(IF MaxTasks > MaxRaceTasks THEN MaxTasks ELSE MaxRaceTasks)

Slots == 1..width

\* Results of the awaited collaborators: an ok Result, an err Result, an exception.
Outcomes == {"ok", "err", "throw"}

\* The values the engine reports once started.
EngineNodeId == "node1"

EngineVersion == "v1"

EngineChannels == [id \in {"ch1"} |-> "open"]

EngineOpenChannelIds == <<"ch1">>

EngineBalance == 5

----------------------------------------------------------------------------
(* Frames *)

NewFrame(fn, pc, caller, shouldRefreshLdk) ==
    [fn |-> fn, pc |-> pc, caller |-> caller,
     shouldRefreshLdk |-> shouldRefreshLdk,
     res |-> "pending",      \* the Result the call returned: "ok" | "err" | "void"
     steps |-> <<>>,         \* the calls this frame has completed, in order
     fails |-> {},           \* those of them that returned err or threw
     isRunning |-> "unknown",\* refreshLdk: what isLdkRunning answered
     attempts |-> 0,         \* keepLdkSynced: refreshLdk calls begun
     returns |-> 0,          \* keepLdkSynced: refreshLdk calls returned
     sleeps |-> 0,           \* keepLdkSynced: sleeps completed
     lastRes |-> "none"]     \* keepLdkSynced: the latest syncRes

Did(f, name) == [f EXCEPT !.steps = Append(@, name)]

Failed(f, name) == [f EXCEPT !.steps = Append(@, name), !.fails = @ \cup {name}]

DidWith(f, name, o) == IF o = "ok" THEN Did(f, name) ELSE Failed(f, name)

Return(f, r) == [f EXCEPT !.pc = "done", !.res = r]

At(f, pc) == [f EXCEPT !.pc = pc]

IsBusy(i) == tasks[i] # <<>>

Top(i) == tasks[i][Len(tasks[i])]

Under(i) == tasks[i][Len(tasks[i]) - 1]

Running(i, fn, pc) == IsBusy(i) /\ Top(i).fn = fn /\ Top(i).pc = pc

\* The top frame replaced by the frames fs.
ReplaceTop(i, fs) == [tasks EXCEPT ![i] = SubSeq(@, 1, Len(@) - 1) \o fs]

\* The returned top frame popped, and the frame that awaited it replaced by fs.
PopResume(i, fs) == [tasks EXCEPT ![i] = SubSeq(@, 1, Len(@) - 2) \o fs]

Awaiting(i, fn, pc, callee) ==
    /\ Len(tasks[i]) >= 2
    /\ Top(i).fn = callee /\ Top(i).pc = "done"
    /\ Under(i).fn = fn /\ Under(i).pc = pc

FreeSlots == {i \in Slots : tasks[i] = <<>>}

NextFree == CHOOSE i \in FreeSlots : \A j \in FreeSlots : i <= j

----------------------------------------------------------------------------
(* The node engine, seen through the calls the coordinator makes *)

\* A reset that leaves the engine as it is.
EngineAfterResetDeferred(e, o) == e

\* ldk.reset(): an ok reset stops the engine.
EngineAfterReset(e, o) == IF o = "ok" THEN "STOPPED" ELSE e

\* lm.start(): an ok start leaves the engine running.
EngineAfterStart(e, o) == IF o = "ok" THEN "RUNNING" ELSE e

\* ldk.nodeId() and lm.syncLdk(): only a running engine answers ok.
EngineUp(e) == e = "RUNNING"

\* The outcomes a call may have now: a failure is a fault, unless the call needs
\* a running engine and the engine is stopped.
Allowed(o, needsEngine) ==
    IF needsEngine /\ ~EngineUp(engine)
    THEN o = "err"
    ELSE o = "ok" \/ faults < MaxFaults

Cost(o, needsEngine) ==
    IF o = "ok" \/ (needsEngine /\ ~EngineUp(engine)) THEN 0 ELSE 1

----------------------------------------------------------------------------
(* isLdkRunning and getNodeId *)

\* A JavaScript value's falsiness: Result objects are truthy.
FalsyValues == {"undefined", "null", "false", "0", ""}

IsFalsy(v) == v \in FalsyValues

\* line 98: the timeout of the liveness probe, in milliseconds.
ProbeTimeoutMs == 2000

TickMs == ProbeTimeoutMs \div MaxTicks

\* getNodeId: try { return await ldk.nodeId() } catch (e) { return err(e) }
getNodeId(o) == IF o = "throw" THEN "err" ELSE o

\* promiseTimeout(2000, p): p's settlement, or an err Result once the timer has
\* won the race.
promiseTimeout(timedOut, r) == IF timedOut THEN "err" ELSE r

\* A bug of the kind of line 142: if (getNodeIdResponse) in place of .isOk().
isLdkRunningTruthy(r) == ~IsFalsy(r)

\* isLdkRunning, line 99-103: true exactly for an ok Result.
isLdkRunning(r) == IF r = "ok" THEN TRUE ELSE FALSE

\* What the caller of isLdkRunning gets: a rejected promise would raise at the
\* await of line 98.
isLdkRunningReturn(r) ==
    IF r = "throw" THEN "raised" ELSE IF isLdkRunning(r) THEN "true" ELSE "false"

\* What the liveness probe can be answered with: ldk.nodeId()'s outcome, or
\* (a[1]) nothing within the 2 seconds.
ProbeAnswers == {<<FALSE, o>> : o \in Outcomes} \cup {<<TRUE, "err">>}

ProbeResult(a) == isLdkRunningReturn(promiseTimeout(a[1], getNodeId(a[2]))) = "true"


----------------------------------------------------------------------------
(* The store transitions the coordinator drives *)

\* lightningModel, line 58-75.
InitialStore == [nodeId |-> "null", ldkVersion |-> "", channels |-> <<>>,
                 openChannelIds |-> <<>>, claimableBalance |-> 0, invoices |-> <<>>,
                 payments |-> <<>>, contacts |-> <<>>]

\* setNodeId: state.nodeId = payload
setNodeId(s, payload) == [s EXCEPT !.nodeId = payload]

\* setLdkVersion: state.ldkVersion = payload
setLdkVersion(s, payload) == [s EXCEPT !.ldkVersion = payload]

\* updateLdkNodeId helper: dispatches setNodeId unless it fails.
updateLdkNodeId(s, o) == IF o = "ok" THEN setNodeId(s, EngineNodeId) ELSE s

\* updateLdkVersion helper: dispatches setLdkVersion unless it fails.
updateLdkVersion(s, o) == IF o = "ok" THEN setLdkVersion(s, EngineVersion) ELSE s

\* { ...a, ...b }: b's entries over a's.
Spread(a, b) == [x \in (DOMAIN a) \cup (DOMAIN b) |-> IF x \in DOMAIN b THEN b[x] ELSE a[x]]

\* [...].includes(id)
includes(list, id) == \E n \in 1..Len(list) : list[n] = id

\* Every id of the payload passes for new.
uniqueIdsUnfiltered(openChannelIds, newChannelIds) == newChannelIds

\* line 146: newChannelIds.filter((id) => !state.openChannelIds.includes(id))
uniqueIds(openChannelIds, newChannelIds) ==
    SelectSeq(newChannelIds, LAMBDA id : ~includes(openChannelIds, id))

\* updateChannels, line 139-148.  A payload field that is missing counts as
\* empty (?? {} and ?? []).
updateChannels(s, payload) ==
    [s EXCEPT !.channels = Spread(@, payload.channels),
              !.openChannelIds = @ \o uniqueIds(@, payload.openChannelIds)]

\* updateLightningChannels helper: merges the engine's channels into the store.
updateLightningChannels(s, o) ==
    IF o = "ok"
    THEN updateChannels(s, [channels |-> EngineChannels,
                            openChannelIds |-> EngineOpenChannelIds])
    ELSE s

\* updateClaimableBalance helper: overwrites the store's claimable balance.
updateClaimableBalance(s, o) ==
    IF o = "ok" THEN [s EXCEPT !.claimableBalance = EngineBalance] ELSE s

----------------------------------------------------------------------------
(* refreshLdk: index.ts:48-84 *)

refreshLdkCall(caller) == NewFrame("refreshLdk", "probe", caller, FALSE)

setupLdkCall(caller, shouldRefreshLdk) ==
    NewFrame("setupLdk", "reset", caller, shouldRefreshLdk)

\* line 61-62: const isRunning = await isLdkRunning(); if (!isRunning) ...
refreshAfterProbe(f, running) ==
    IF running
    THEN At([Did(f, "isLdkRunning") EXCEPT !.isRunning = "yes"], "sync")
    ELSE At([Did(f, "isLdkRunning") EXCEPT !.isRunning = "no"], "reset")

\* setupLdk called with shouldRefreshLdk: true.
refreshAfterResetRefreshes(f, o) ==
    IF o = "throw"
    THEN <<Return(Failed(f, "resetLdk"), "err")>>
    ELSE <<At(Did(f, "resetLdk"), "awaitSetup"), setupLdkCall("refreshLdk", TRUE)>>

\* line 64-66: await resetLdk(); then setupLdk({shouldRefreshLdk: false}) is called.
\* resetLdk's Result is not looked at; an exception reaches the catch of line 81.
refreshAfterReset(f, o) ==
    IF o = "throw"
    THEN <<Return(Failed(f, "resetLdk"), "err")>>
    ELSE <<At(Did(f, "resetLdk"), "awaitSetup"), setupLdkCall("refreshLdk", FALSE)>>

\* setupResponse not looked at.
refreshAfterSetupUnchecked(f, setupRes) ==
    At(Did(DidWith(f, "setupLdk", setupRes), "keepLdkSynced"), "sync")

\* line 67-73: an err setupResponse returns err; otherwise keepLdkSynced is
\* started and lm.syncLdk() is called.
refreshAfterSetup(f, setupRes) ==
    IF setupRes = "err"
    THEN Return(Failed(f, "setupLdk"), "err")
    ELSE At(Did(Did(f, "setupLdk"), "keepLdkSynced"), "sync")

\* line 73-76: an err syncResponse (or an exception) returns err.
refreshAfterSync(f, o) ==
    IF o = "ok"
    THEN At(Did(f, "syncLdk"), "channels")
    ELSE Return(Failed(f, "syncLdk"), "err")

\* ok('') returned before the claimable balance is refreshed.
refreshAfterChannelsReturns(f, o) ==
    IF o = "throw"
    THEN Return(Failed(f, "updateLightningChannels"), "err")
    ELSE Return(DidWith(f, "updateLightningChannels", o), "ok")

\* line 78: await updateLightningChannels(); the value is discarded.
refreshAfterChannels(f, o) ==
    IF o = "throw"
    THEN Return(Failed(f, "updateLightningChannels"), "err")
    ELSE At(DidWith(f, "updateLightningChannels", o), "balance")

\* line 79-80: await updateClaimableBalance(); the value is discarded; return ok('').
refreshAfterBalance(f, o) ==
    IF o = "throw"
    THEN Return(Failed(f, "updateClaimableBalance"), "err")
    ELSE Return(DidWith(f, "updateClaimableBalance", o), "ok")

----------------------------------------------------------------------------
(* setupLdk: index.ts:190-290 *)

\* line 202: await resetLdk(); the Result is not looked at.
setupAfterReset(f, o) ==
    IF o = "throw"
    THEN Return(Failed(f, "resetLdk"), "err")
    ELSE At(DidWith(f, "resetLdk", o), "account")

\* account.isErr() not looked at.
setupAfterAccountUnchecked(f, o) == At(DidWith(f, "getLdkAccount", o), "storage")

\* line 204-208: account.isErr() returns err.
setupAfterAccount(f, o) ==
    IF o = "ok"
    THEN At(Did(f, "getLdkAccount"), "storage")
    ELSE Return(Failed(f, "getLdkAccount"), "err")

\* line 231-234: storageRes.isErr() returns err.
setupAfterStorage(f, o) ==
    IF o = "ok"
    THEN At(Did(f, "setLdkStoragePath"), "start")
    ELSE Return(Failed(f, "setLdkStoragePath"), "err")

\* line 240-263: lmStart.isErr() returns err.
setupAfterStart(f, o) ==
    IF o = "ok"
    THEN At(Did(f, "lm.start"), "nodeId")
    ELSE Return(Failed(f, "lm.start"), "err")

\* line 266-269: nodeIdRes.isErr() returns err.
setupAfterNodeId(f, o) ==
    IF o = "ok"
    THEN At(Did(f, "ldk.nodeId"), "recordId")
    ELSE Return(Failed(f, "ldk.nodeId"), "err")

\* line 271-273: await updateLdkNodeId(...); the value is discarded.
setupAfterRecordId(f, o) ==
    IF o = "throw"
    THEN Return(Failed(f, "updateLdkNodeId"), "err")
    ELSE At(DidWith(f, "updateLdkNodeId", o), "recordVersion")

\* line 284-286: subscribeToPayments(...); return ok(...)
setupFinish(f) == Return(Did(f, "subscribeToPayments"), "ok")

\* line 270-286: await Promise.all([..., updateLdkVersion()]); then the sync
\* pass if shouldRefreshLdk, else subscribe and return ok.
setupAfterRecordVersion(f, o) ==
    IF o = "throw"
    THEN <<Return(Failed(f, "updateLdkVersion"), "err")>>
    ELSE IF f.shouldRefreshLdk
         THEN <<At(DidWith(f, "updateLdkVersion", o), "awaitRefresh"),
                refreshLdkCall("setupLdk")>>
         ELSE <<setupFinish(DidWith(f, "updateLdkVersion", o))>>

\* line 280-286: await refreshLdk(...); its Result is discarded.
setupAfterRefresh(f, refreshRes) == setupFinish(DidWith(f, "refreshLdk", refreshRes))

\* Whether frame f has just made the subscribeToPayments call of line 284.
Subscribes(f) == f.pc = "done" /\ f.res = "ok"

----------------------------------------------------------------------------
(* subscribeToPayments: index.ts:474-504 *)

\* The guard of line 482 left out.
SubscribePaymentAlways(ps) == TRUE

\* line 482: if (!paymentSubscription)
SubscribePayment(ps) == ps = "undefined"

\* The guard of line 493 left out.
SubscribeChannelAlways(cs) == TRUE

\* line 493: if (!onChannelSubscription)
SubscribeChannel(cs) == cs = "undefined"

subscribeToPayments ==
    /\ paymentSubscription' = "handle"
    /\ onChannelSubscription' = "handle"
    /\ listeners' =
         [payment |-> listeners.payment
                        + (IF SubscribePayment(paymentSubscription) THEN 1 ELSE 0),
          channel |-> listeners.channel
                        + (IF SubscribeChannel(onChannelSubscription) THEN 1 ELSE 0)]

NoSubscribe == UNCHANGED <<paymentSubscription, onChannelSubscription, listeners>>

\* line 507-508: subscription?.remove() takes the subscription's listener off
\* the emitter; where the variable is undefined nothing is called.
removed(subscription, registered) ==
    IF subscription # "undefined" /\ registered > 0 THEN registered - 1 ELSE registered

----------------------------------------------------------------------------
(* keepLdkSynced: index.ts:121-149 *)

\* The guard left out.
keepLdkSyncedNeverRejects(flag) == FALSE

\* line 128-129: if (LDKIsStayingSynced) return;
keepLdkSyncedRejects(flag) == flag

\* line 131-140: the flag is set and the first refreshLdk call begins.
keepLdkSyncedStart(caller) ==
    <<[NewFrame("keepLdkSynced", "awaitRefresh", caller, FALSE) EXCEPT !.attempts = 1],
      refreshLdkCall("keepLdkSynced")>>

\* A keepLdkSynced call made after the caller's chains have become ts.
keepLdkSynced(caller, ts) ==
    IF keepLdkSyncedRejects(LDKIsStayingSynced)
    THEN /\ tasks' = ts
         /\ UNCHANGED LDKIsStayingSynced
    ELSE /\ \E i \in Slots : ts[i] = <<>>
         /\ LET free == {i \in Slots : ts[i] = <<>>}
                i == CHOOSE i \in free : \A j \in free : i <= j
            IN tasks' = [ts EXCEPT ![i] = keepLdkSyncedStart(caller)]
         /\ LDKIsStayingSynced' = TRUE

\* line 142: if (!syncRes)
LoopSeesFailure(syncRes) == IsFalsy(syncRes)

\* The sleep not awaited: the next pass begins as soon as the last has returned.
keepAfterRefreshNoSleep(f, syncRes) ==
    LET g == [f EXCEPT !.returns = @ + 1, !.lastRes = syncRes]
    IN IF LoopSeesFailure(syncRes) \/ g.attempts >= MaxAttempts
       THEN <<Return(g, "void")>>
       ELSE <<[g EXCEPT !.attempts = @ + 1, !.pc = "awaitRefresh"],
              NewFrame("refreshLdk", "probe", "keepLdkSynced", FALSE)>>

\* line 140-147: syncRes arrives; on a failure the loop ends, else it sleeps.
keepAfterRefresh(f, syncRes) ==
    LET g == [f EXCEPT !.returns = @ + 1, !.lastRes = syncRes]
    IN IF LoopSeesFailure(syncRes) THEN <<Return(g, "void")>> ELSE <<At(g, "sleep")>>

\* line 143-145: the failure branch clears the flag.
FlagAfterRefresh(flag, syncRes) == IF LoopSeesFailure(syncRes) THEN FALSE ELSE flag

\* line 147, 139-140: the sleep is over and the next refreshLdk call begins.
keepAfterSleep(f) ==
    <<[f EXCEPT !.sleeps = @ + 1, !.attempts = @ + 1, !.pc = "awaitRefresh"],
      refreshLdkCall("keepLdkSynced")>>

----------------------------------------------------------------------------
(* One isLdkRunning call against the clock: index.ts:97-104, 155-161 *)

ProbeIdle == [phase |-> "idle", elapsed |-> 0, answer |-> "none", answeredAt |-> 0,
              result |-> "none", returnedAt |-> 0, timedOut |-> FALSE, calls |-> 0]

----------------------------------------------------------------------------
(* _getTransactionData: index.ts:298-355 *)

\* A block header in hex; `of` is the height of the block it is the header of.
HeaderAt(h) == [hex |-> "header", of |-> h]

\* DefaultTransactionDataShape: header '', height 0, transaction '', vout [].
DefaultTransactionDataShape ==
    [header |-> [hex |-> "", of |-> 0], height |-> 0, transaction |-> "", vout |-> <<>>]

\* One output of a transaction as electrum reports it.
VoutEntry == [n |-> 0, value |-> 5, scriptPubKey |-> [hex |-> "s1"]]

\* response.data[0].result: confirmations is 0 (or missing) while unconfirmed.
TxResults == [confirmations : 0..(MaxTip + 1), hex : {"rawtx"},
              vout : {<<>>, <<VoutEntry>>}]

NoTxResult == [confirmations |-> 0, hex |-> "", vout |-> <<>>]

\* response.data[0]: it may carry an error, and it may lack a result.
TxEntries ==
    {[error |-> e, hasResult |-> TRUE, result |-> r] : e \in BOOLEAN, r \in TxResults}
    \cup {[error |-> e, hasResult |-> FALSE, result |-> NoTxResult] : e \in BOOLEAN}

\* What electrum.getTransactions settles with: a rejection, or a response that
\* may carry an error and may lack data.
TxResponses ==
    {[rejected |-> TRUE, error |-> FALSE, hasData |-> FALSE, data |-> <<>>]}
    \cup {[rejected |-> FALSE, error |-> e, hasData |-> FALSE, data |-> <<>>] :
             e \in BOOLEAN}
    \cup {[rejected |-> FALSE, error |-> e, hasData |-> TRUE, data |-> d] :
             e \in BOOLEAN, d \in {<<>>} \cup {<<x>> : x \in TxEntries}}

TxIdle == [pc |-> "idle", response |-> "none", currentHeight |-> 0,
           confirmedHeight |-> 0, requested |-> 0,
           blockHex |-> "none", via |-> "none", result |-> "none"]

\* The catch block lets the exception through.
txCaughtRethrows(c) == [c EXCEPT !.pc = "rejected", !.via = "catch"]

\* line 352-354: catch { return transactionData }
txCaught(c) ==
    [c EXCEPT !.pc = "returned", !.via = "catch", !.result = DefaultTransactionDataShape]

\* line 322: response.error || !response.data || response.data[0].error; the
\* last operand is read from data[0], which an empty data does not have.
txConditionThrows(response) ==
    ~response.error /\ response.hasData /\ Len(response.data) = 0

txLookupFailed(response) ==
    response.error \/ ~response.hasData \/ response.data[1].error

\* line 323-325: the message logged is response.data[0].error.message.
txLogThrows(response) ==
    \/ ~response.hasData
    \/ Len(response.data) = 0
    \/ ~response.data[1].error

\* The height of the block before the one the transaction is in.
confirmedHeightOffByOne(currentHeight, confirmations) ==
    IF confirmations # 0 THEN currentHeight - confirmations ELSE 0

\* line 332-335: let confirmedHeight = 0;
\* if (confirmations) confirmedHeight = currentHeight - confirmations + 1
confirmedHeight(currentHeight, confirmations) ==
    IF confirmations # 0 THEN currentHeight - confirmations + 1 ELSE 0

\* line 343-345: vout.map(({ n, value, scriptPubKey: { hex } }) => ({ n, hex, value }))
voutData(vout) ==
    [k \in 1..Len(vout) |->
        [n |-> vout[k].n, hex |-> vout[k].scriptPubKey.hex, value |-> vout[k].value]]

\* line 317-339: electrum.getTransactions has settled with response, and
\* getBlockHeader() reports the tip at currentHeight.
txAfterResponse(c, response, currentHeight) ==
    LET got == [c EXCEPT !.response = response]
    IN IF response.rejected \/ txConditionThrows(response)
       THEN txCaught(got)
       ELSE IF txLookupFailed(response)
       THEN IF txLogThrows(response)
            THEN txCaught(got)
            ELSE [got EXCEPT !.pc = "returned", !.via = "lookup",
                             !.result = DefaultTransactionDataShape]
       ELSE IF ~response.data[1].hasResult
       THEN txCaught(got)
       ELSE LET height == confirmedHeight(currentHeight,
                                          response.data[1].result.confirmations)
            IN [got EXCEPT !.pc = "getBlockHex", !.currentHeight = currentHeight,
                           !.confirmedHeight = height, !.requested = height]

\* line 336-351: getBlockHex({height: confirmedHeight}) has settled: with the
\* header of the block at the height it was asked for, an err Result, or a rejection.
txAfterBlockHex(c, o) ==
    LET got == [c EXCEPT !.blockHex = o]
    IN IF o = "throw"
       THEN txCaught(got)
       ELSE IF o = "err"
       THEN [got EXCEPT !.pc = "returned", !.via = "header",
                        !.result = DefaultTransactionDataShape]
       ELSE [got EXCEPT !.pc = "returned", !.via = "data",
                !.result = [header |-> HeaderAt(c.requested),
                            height |-> c.confirmedHeight,
                            transaction |-> c.response.data[1].result.hex,
                            vout |-> voutData(c.response.data[1].result.vout)]]

\* _getTransactionData as one call: what it returns for the answers it gets.
getTransactionData(response, currentHeight, o) ==
    LET c == txAfterResponse([TxIdle EXCEPT !.pc = "getTransactions"], response,
                             currentHeight)
    IN IF c.pc = "getBlockHex" THEN txAfterBlockHex(c, o).result ELSE c.result

\* The chain cannot confirm a transaction more often than it has blocks.
TxAnswers ==
    {a \in TxResponses \X (0..MaxTip) :
        (a[1].hasData /\ Len(a[1].data) > 0) =>
            a[1].data[1].result.confirmations <= a[2] + 1}

\* Everything a call of _getTransactionData may return.
TxDataResults ==
    {getTransactionData(a[1], a[2], o) : a \in TxAnswers, o \in Outcomes}

----------------------------------------------------------------------------
(* checkWatchTxs: index.ts:388-411 *)

\* Transaction ids and script-pubkeys of the watch-list and of the chain.
Txids == {"t1", "t2", "t3"}

WatchedTxids == {"t1", "t2"}

Scripts == {"s1", "s2"}

SeqsUpTo(S, n) == UNION {[1..k -> S] : k \in 0..n}

\* lm.watchTxs: entries {txid, script_pubkey}.
WatchLists == SeqsUpTo([txid : WatchedTxids, script_pubkey : Scripts], MaxWatchTxs)

\* getScriptPubKeyHistory: the txids of a script's on-chain history, in order.
Histories == [Scripts -> SeqsUpTo(Txids, MaxHistory)]

WatchIdle == [pc |-> "idle", watchTxs |-> <<>>, history |-> [sc \in Scripts |-> <<>>],
              k |-> 0, checked |-> <<>>, fetched |-> <<>>, found |-> "none",
              txData |-> DefaultTransactionDataShape, confirmRes |-> "none",
              confirmed |-> <<>>, result |-> "none"]

\* line 390: const watchTransactionIds = lm.watchTxs.map((tx) => tx.txid)
watchTransactionIds(w) == {w.watchTxs[n].txid : n \in 1..Len(w.watchTxs)}

\* Every history entry passes for new.
watchUnseenAny(ids, txid) == TRUE

\* line 397: !watchTransactionIds.includes(data?.txid)
watchUnseen(ids, txid) == txid \notin ids

\* line 396-407: the position of the first history entry that is not in the
\* watch-list, 0 if there is none.
FirstUnseen(hist, ids) ==
    IF \E n \in 1..Len(hist) : watchUnseen(ids, hist[n])
    THEN CHOOSE n \in 1..Len(hist) :
            /\ watchUnseen(ids, hist[n])
            /\ \A m \in 1..(n - 1) : ~watchUnseen(ids, hist[m])
    ELSE 0

\* line 392: !checkedScriptPubKeys.includes(watchTx.script_pubkey)
watchNotChecked(w) ==
    \A n \in 1..Len(w.checked) : w.checked[n] # w.watchTxs[w.k].script_pubkey

\* line 393-408: the script's history is fetched and scanned.
watchAfterHistory(w) ==
    LET sc == w.watchTxs[w.k].script_pubkey
        hist == w.history[sc]
        n == FirstUnseen(hist, watchTransactionIds(w))
        f == [w EXCEPT !.fetched = Append(@, sc)]
    IN IF n > 0
       THEN [f EXCEPT !.pc = "report", !.found = hist[n]]
       ELSE [f EXCEPT !.checked = Append(@, sc), !.k = @ + 1]

\* line 398-403: ldk.setTxConfirmed is called with the header, the height and
\* the transaction of txData, and settles with o.
watchConfirmed(w, txData, o) ==
    [w EXCEPT !.confirmed = Append(@, w.found), !.txData = txData, !.confirmRes = o]

\* The scan goes on after a transaction has been reported.
watchAfterConfirmGoesOn(w, txData, o) ==
    IF o = "throw"
    THEN [watchConfirmed(w, txData, o) EXCEPT !.pc = "rejected"]
    ELSE [watchConfirmed(w, txData, o) EXCEPT
                !.pc = "scan", !.found = "none",
                !.checked = Append(@, w.watchTxs[w.k].script_pubkey), !.k = @ + 1]

\* line 398-404: _getTransactionData, then ldk.setTxConfirmed, then return true.
\* A rejected setTxConfirmed promise rejects checkWatchTxs; an err Result does not.
watchAfterConfirm(w, txData, o) ==
    IF o = "throw"
    THEN [watchConfirmed(w, txData, o) EXCEPT !.pc = "rejected"]
    ELSE [watchConfirmed(w, txData, o) EXCEPT !.pc = "returned", !.result = "true"]

----------------------------------------------------------------------------
(* The latest store dispatch or engine event *)

NoCall == [op |-> "none", payload |-> "none", before |-> "none"]

Dispatched(op, payload) == [op |-> op, payload |-> payload, before |-> store]

----------------------------------------------------------------------------
(* The invoice list of the store: lightning.ts:111-138 *)

Hashes == {"h1", "h2"}

PubKeys == {EngineNodeId, "node2"}

Timestamps == {0, 1}

Expiries == {1, 2}

\* A TInvoice, by the fields the store and the coordinator read.
InvoiceOf(h, payee, ts, exp) ==
    [payment_hash |-> h, payee_pub_key |-> payee, timestamp |-> ts,
     expiry_time |-> exp, to_str |-> "lnbc"]

\* addInvoice: state.invoices.push(payload)
addInvoice(s, payload) == [s EXCEPT !.invoices = Append(@, payload)]

\* updateInvoice: to_str of every invoice with the payload's hash is replaced.
updateInvoice(s, payload) ==
    [s EXCEPT !.invoices =
        [n \in 1..Len(@) |->
            IF @[n].payment_hash = payload.payment_hash
            THEN [@[n] EXCEPT !.to_str = payload.modified_request]
            ELSE @[n]]]

\* findIndex: the first position with that hash, 0 for -1.
findIndex(invoices, hash) ==
    IF \E n \in 1..Len(invoices) : invoices[n].payment_hash = hash
    THEN CHOOSE n \in 1..Len(invoices) :
            /\ invoices[n].payment_hash = hash
            /\ \A m \in 1..(n - 1) : invoices[m].payment_hash # hash
    ELSE 0

\* Every invoice with the hash is dropped.
removeInvoiceEvery(s, payload) ==
    [s EXCEPT !.invoices = SelectSeq(@, LAMBDA inv : inv.payment_hash # payload)]

\* removeInvoice: splice(index, 1) when index !== -1
removeInvoice(s, payload) ==
    LET index == findIndex(s.invoices, payload)
    IN IF index # 0
       THEN [s EXCEPT !.invoices = SubSeq(@, 1, index - 1) \o SubSeq(@, index + 1, Len(@))]
       ELSE s

\* The invoice is pushed, whatever the index.
updateInvoicesAppends(s, payload) == [s EXCEPT !.invoices = Append(@, payload.invoice)]

\* updateInvoices, line 128-130: state.invoices[payload.index] = payload.invoice.
\* The index counts from 0; index = length appends.
updateInvoices(s, payload) ==
    IF payload.index < Len(s.invoices)
    THEN [s EXCEPT !.invoices[payload.index + 1] = payload.invoice]
    ELSE [s EXCEPT !.invoices = Append(@, payload.invoice)]

\* line 133: Math.floor(Date.now() / 1000)
nowInSecs(dateNow) == dateNow \div 1000

\* The comparison of line 136 with >= in place of >.
keepsInvoiceAtExpiry(invoice, now) == invoice.timestamp + invoice.expiry_time >= now

\* line 136: invoice.timestamp + invoice.expiry_time > nowInSecs
keepsInvoice(invoice, now) == invoice.timestamp + invoice.expiry_time > now

\* removeExpiredInvoices, line 131-138.
removeExpiredInvoices(s, dateNow) ==
    [s EXCEPT !.invoices = SelectSeq(@, LAMBDA inv : keepsInvoice(inv, nowInSecs(dateNow)))]

----------------------------------------------------------------------------
(* The payments of the store: lightning.ts:155-180 *)

\* { ...object, [key]: value }
Put(f, k, v) == [x \in (DOMAIN f) \cup {k} |-> IF x = k THEN v ELSE f[x]]

\* The two tags the wrong way round.
paymentTypeSwapped(payee_pub_key, nodeId) ==
    IF payee_pub_key = nodeId THEN "sent" ELSE "received"

\* line 160-164: payee_pub_key === state.nodeId ? received : sent
paymentType(payee_pub_key, nodeId) ==
    IF payee_pub_key = nodeId THEN "received" ELSE "sent"

\* addPayment, line 155-167.
addPayment(s, payload) ==
    [s EXCEPT !.payments =
        Put(@, payload.invoice.payment_hash,
            [invoice |-> payload.invoice,
             type |-> paymentType(payload.invoice.payee_pub_key, s.nodeId)])]

\* Object.assign(payment, payload): the fields the payload has overwrite.
assignPayment(payment, payload) ==
    [invoice |-> payload.invoice,
     type |-> IF payload.type = "absent" THEN payment.type ELSE payload.type]

\* updatePayment, line 168-180: the payment whose invoice has the payload's hash.
updatePayment(s, payload) ==
    LET found == {k \in DOMAIN s.payments :
                    s.payments[k].invoice.payment_hash = payload.invoice.payment_hash}
    IN IF found = {}
       THEN s
       ELSE LET k == CHOOSE x \in found : TRUE
            IN [s EXCEPT !.payments = Put(@, k, assignPayment(@[k], payload))]

----------------------------------------------------------------------------
(* The contacts of the store: lightning.ts:184-205 *)

ContactIds == {"c1", "c2"}

\* The identifiers (addresses) a contact may be given, by their id.
Identifiers == [id : {"a1", "a2"}, address : {"addr"}]

\* A TContact: alias and identifiers are optional.  A field that is not there
\* is "absent"; a missing identifiers list has hasIdentifiers = FALSE.  `items`
\* is the field deleteContactAddress adds (line 228).
ContactOf(id, alias, hasIdentifiers, identifiers) ==
    [id |-> id, alias |-> alias, hasIdentifiers |-> hasIdentifiers,
     identifiers |-> identifiers, hasItems |-> FALSE, items |-> <<>>]

\* useContactsBottomSheet, part_000:34-95: the props' contact (updatingContact)
\* and the ids generated when the hook instance is mounted.
HookIdle == [mounted |-> FALSE, updatingContact |-> "undefined",
             generatedContactId |-> "none", generatedAddressId |-> "none"]

\* addContact: state.contacts.push(payload)
addContact(s, payload) == [s EXCEPT !.contacts = Append(@, payload)]

\* The payload's identifiers take the place of the contact's.
mergedIdentifiersReplaced(contact, updatedContact) ==
    IF updatedContact.hasIdentifiers
    THEN updatedContact.identifiers
    ELSE contact.identifiers

\* line 193-195: the contact's identifiers (or []) followed by the payload's.
mergedIdentifiers(contact, updatedContact) ==
    IF updatedContact.hasIdentifiers
    THEN contact.identifiers \o updatedContact.identifiers
    ELSE contact.identifiers

\* line 196-200: { ...contact, ...updatedContact, identifiers: mergedIdentifiers }
mergeContact(contact, updatedContact) ==
    [id |-> IF updatedContact.id = "absent" THEN contact.id ELSE updatedContact.id,
     alias |-> IF updatedContact.alias = "absent" THEN contact.alias
               ELSE updatedContact.alias,
     hasIdentifiers |-> TRUE,
     identifiers |-> mergedIdentifiers(contact, updatedContact),
     hasItems |-> contact.hasItems \/ updatedContact.hasItems,
     items |-> IF updatedContact.hasItems THEN updatedContact.items ELSE contact.items]

\* updateContact, line 187-205.
updateContact(s, payload) ==
    IF payload.contactId # ""
    THEN [s EXCEPT !.contacts =
            [n \in 1..Len(@) |->
                IF @[n].id = payload.contactId
                THEN mergeContact(@[n], payload.updatedContact)
                ELSE @[n]]]
    ELSE s

\* deleteContact, line 206-211: the first contact with the id is spliced out.
deleteContact(s, payload) ==
    IF \E n \in 1..Len(s.contacts) : s.contacts[n].id = payload
    THEN LET index == CHOOSE n \in 1..Len(s.contacts) :
                        /\ s.contacts[n].id = payload
                        /\ \A m \in 1..(n - 1) : s.contacts[m].id # payload
         IN [s EXCEPT !.contacts = SubSeq(@, 1, index - 1) \o SubSeq(@, index + 1, Len(@))]
    ELSE s

\* line 216, 225: identifiers.filter((identity) => identity.id !== addressId)
withoutAddress(identifiers, addressId) ==
    SelectSeq(identifiers, LAMBDA identity : identity.id # addressId)

\* line 216 and 225 read contact.identifiers!.filter: a TypeError where a contact
\* has no identifiers list.  The second map (line 224-229) visits every contact.
deleteContactAddressThrows(s, payload) ==
    \E n \in 1..Len(s.contacts) : ~s.contacts[n].hasIdentifiers

\* deleteContactAddress, line 212-230.  An exception in the action leaves the
\* state as it was.
deleteContactAddress(s, payload) ==
    IF deleteContactAddressThrows(s, payload)
    THEN s
    ELSE LET first == [n \in 1..Len(s.contacts) |->
                         IF s.contacts[n].id = payload.contactId
                         THEN [s.contacts[n] EXCEPT !.identifiers =
                                  withoutAddress(@, payload.addressId)]
                         ELSE s.contacts[n]]
         IN [s EXCEPT !.contacts =
                [n \in 1..Len(first) |->
                    [first[n] EXCEPT !.hasItems = TRUE,
                                     !.items = withoutAddress(first[n].identifiers,
                                                              payload.addressId)]]]

----------------------------------------------------------------------------
(* The contact bottom sheets: part_000 (useContactsBottomSheet) *)

\* The ids uuidv4() draws from.
UuidContactIds == {"c1", "c2", "c3"}

UuidAddressIds == {"a1", "a2", "a3"}

ContactIdsOf(s) == {s.contacts[n].id : n \in 1..Len(s.contacts)}

AddressIdsOf(s) ==
    UNION {{s.contacts[n].identifiers[k].id : k \in 1..Len(s.contacts[n].identifiers)} :
              n \in 1..Len(s.contacts)}

\* line 83-88: the hook is mounted with its props; useState(uuidv4()) keeps the
\* two ids generated at the first render for as long as the instance lives.
hookMounted(updatingContact, contactId, addressId) ==
    [mounted |-> TRUE, updatingContact |-> updatingContact,
     generatedContactId |-> contactId, generatedAddressId |-> addressId]

\* line 100-106: NewContactBottomSheet.onPressSave's payload.
newContactPayload(h) == ContactOf(h.generatedContactId, "ann", FALSE, <<>>)

\* line 168-176: EditContactBottomSheet.onPressSave's payload.
editContactPayload(h) ==
    [contactId |-> h.updatingContact,
     updatedContact |-> ContactOf(h.updatingContact, "bob", FALSE, <<>>)]

\* line 254-267: AddAddressBottomSheet.onPressSave's payload.
addAddressPayload(h, s) ==
    [contactId |-> h.updatingContact,
     updatedContact |->
        ContactOf(h.updatingContact, "absent", TRUE,
                  <<[id |-> h.generatedAddressId, address |-> "addr"]>>)]

----------------------------------------------------------------------------
(* Payment events: index.ts:418-468 *)

\* Any invoice of the store passes for the pending one.
getPendingInvoiceFirst(s, paymentHash) ==
    IF Len(s.invoices) > 0 THEN <<s.invoices[1]>> ELSE <<>>

\* getPendingInvoice, line 418-438: ok(invoice[0]) as <<invoice>>, err as <<>>.
getPendingInvoice(s, paymentHash) ==
    LET invoice == SelectSeq(s.invoices, LAMBDA inv : inv.payment_hash = paymentHash)
    IN IF Len(invoice) > 0 THEN <<invoice[1]>> ELSE <<>>

\* The addPayment helper: dispatches the store's addPayment with the invoice.
addPaymentHelper(s, invoice) == addPayment(s, [invoice |-> invoice, type |-> "absent"])

\* The handler returns after addPayment, without a sync pass.
handlePaymentSubscriptionReturns ==
    <<Return(Did(Did(NewFrame("handlePaymentSubscription", "start", "payment_claimed", FALSE),
                     "getPendingInvoice"), "addPayment"), "void")>>

\* line 451-466: the handler has added the payment and awaits refreshLdk.
handlePaymentSubscriptionCall ==
    <<At(Did(Did(NewFrame("handlePaymentSubscription", "start", "payment_claimed", FALSE),
                 "getPendingInvoice"), "addPayment"), "awaitRefresh"),
      refreshLdkCall("handlePaymentSubscription")>>

----------------------------------------------------------------------------
(* Initial state: the module has just been loaded, the store is lightningModel *)

Init ==
    /\ LDKIsStayingSynced = FALSE
    /\ paymentSubscription = "undefined"
    /\ onChannelSubscription = "undefined"
    /\ listeners = [payment |-> 0, channel |-> 0]
    /\ engine = "STOPPED"
    /\ store = InitialStore
    /\ tasks = [i \in AllSlots |-> <<>>]
    /\ faults = 0
    /\ width = MaxTasks
    /\ probe = ProbeIdle
    /\ watch = WatchIdle
    /\ txCall = TxIdle
    /\ hook = HookIdle
    /\ last = NoCall

----------------------------------------------------------------------------
(* Calls from outside the module *)

\* The app calls setupLdk (startLightning, restore flows).
CallSetupLdk ==
    /\ FreeSlots # {}
    /\ \E b \in BOOLEAN :
         tasks' = [tasks EXCEPT ![NextFree] = <<setupLdkCall("user", b)>>]
    /\ UNCHANGED <<LDKIsStayingSynced, paymentSubscription, onChannelSubscription,
                   listeners, engine, store, faults, width, probe,
                   watch, txCall, hook, last>>

\* The app calls refreshLdk.
CallRefreshLdk ==
    /\ FreeSlots # {}
    /\ tasks' = [tasks EXCEPT ![NextFree] = <<refreshLdkCall("user")>>]
    /\ UNCHANGED <<LDKIsStayingSynced, paymentSubscription, onChannelSubscription,
                   listeners, engine, store, faults, width, probe,
                   watch, txCall, hook, last>>

\* The app calls keepLdkSynced.
CallKeepLdkSynced ==
    /\ keepLdkSynced("user", tasks)
    /\ UNCHANGED <<paymentSubscription, onChannelSubscription, listeners, engine,
                   store, faults, width, probe,
                   watch, txCall, hook, last>>

\* The listener starts a full setup with a sync pass.
onNewChannelSetsUp == <<setupLdkCall("new_channel", TRUE)>>

\* line 494-502: the new_channel listener: refreshLdk({ selectedNetwork }).then()
onNewChannel == <<refreshLdkCall("new_channel")>>

\* line 494-502: the engine emits new_channel; the listener starts refreshLdk.
EmitNewChannel ==
    /\ listeners.channel > 0
    /\ engine = "RUNNING"
    /\ FreeSlots # {}
    /\ tasks' = [tasks EXCEPT ![NextFree] = onNewChannel]
    /\ UNCHANGED <<LDKIsStayingSynced, paymentSubscription, onChannelSubscription,
                   listeners, engine, store, faults, width, probe,
                   watch, txCall, hook, last>>

\* A call nobody awaits has returned: its promise settles and is dropped.
Settle(i) ==
    /\ Len(tasks[i]) = 1
    /\ Top(i).pc = "done"
    /\ tasks' = [tasks EXCEPT ![i] = <<>>]
    /\ UNCHANGED <<LDKIsStayingSynced, paymentSubscription, onChannelSubscription,
                   listeners, engine, store, faults, width, probe,
                   watch, txCall, hook, last>>

----------------------------------------------------------------------------
(* refreshLdk *)

\* line 55-62: the liveness probe is answered.
RefreshProbe(i) ==
    /\ Running(i, "refreshLdk", "probe")
    /\ \E a \in ProbeAnswers :
         /\ Allowed(a[2], TRUE)
         /\ a[1] => faults < MaxFaults
         /\ faults' = faults + (IF a[1] THEN 1 ELSE Cost(a[2], TRUE))
         /\ tasks' = ReplaceTop(i, <<refreshAfterProbe(Top(i), ProbeResult(a))>>)
    /\ UNCHANGED <<LDKIsStayingSynced, paymentSubscription, onChannelSubscription,
                   listeners, engine, store, width, probe,
                   watch, txCall, hook, last>>

\* line 64-66: ldk.reset() is answered and setupLdk is called.
RefreshReset(i) ==
    /\ Running(i, "refreshLdk", "reset")
    /\ \E o \in Outcomes :
         /\ Allowed(o, FALSE)
         /\ faults' = faults + Cost(o, FALSE)
         /\ engine' = EngineAfterReset(engine, o)
         /\ tasks' = ReplaceTop(i, refreshAfterReset(Top(i), o))
    /\ UNCHANGED <<LDKIsStayingSynced, paymentSubscription, onChannelSubscription,
                   listeners, store, width, probe,
                   watch, txCall, hook, last>>

\* line 66-73: setupLdk has returned.
RefreshSetupReturns(i) ==
    /\ Awaiting(i, "refreshLdk", "awaitSetup", "setupLdk")
    /\ LET f == refreshAfterSetup(Under(i), Top(i).res)
       IN IF f.pc = "done"
          THEN /\ tasks' = PopResume(i, <<f>>)
               /\ UNCHANGED LDKIsStayingSynced
          ELSE keepLdkSynced("refreshLdk", PopResume(i, <<f>>))
    /\ UNCHANGED <<paymentSubscription, onChannelSubscription, listeners, engine,
                   store, faults, width, probe,
                   watch, txCall, hook, last>>

\* line 73-76: lm.syncLdk() is answered.
RefreshSync(i) ==
    /\ Running(i, "refreshLdk", "sync")
    /\ \E o \in Outcomes :
         /\ Allowed(o, TRUE)
         /\ faults' = faults + Cost(o, TRUE)
         /\ tasks' = ReplaceTop(i, <<refreshAfterSync(Top(i), o)>>)
    /\ UNCHANGED <<LDKIsStayingSynced, paymentSubscription, onChannelSubscription,
                   listeners, engine, store, width, probe,
                   watch, txCall, hook, last>>

\* line 78-80: the two store refreshes, one after the other.
RefreshStore(i) ==
    /\ Running(i, "refreshLdk", "channels")
    /\ \E o1, o2 \in Outcomes :
         LET f1 == refreshAfterChannels(Top(i), o1)
             s1 == updateLightningChannels(store, o1)
         IN /\ Allowed(o1, FALSE)
            /\ IF f1.pc = "balance"
               THEN /\ o2 = "ok" \/ faults + Cost(o1, FALSE) < MaxFaults
                    /\ faults' = faults + Cost(o1, FALSE) + Cost(o2, FALSE)
                    /\ store' = updateClaimableBalance(s1, o2)
                    /\ tasks' = ReplaceTop(i, <<refreshAfterBalance(f1, o2)>>)
               ELSE /\ o2 = "ok"
                    /\ faults' = faults + Cost(o1, FALSE)
                    /\ store' = s1
                    /\ tasks' = ReplaceTop(i, <<f1>>)
    /\ UNCHANGED <<LDKIsStayingSynced, paymentSubscription, onChannelSubscription,
                   listeners, engine, width, probe,
                   watch, txCall, hook, last>>

----------------------------------------------------------------------------
(* setupLdk *)

\* line 202-234: ldk.reset(), then the account load and the storage path.
SetupPrepare(i) ==
    /\ Running(i, "setupLdk", "reset")
    /\ \E o1, o2, o3 \in Outcomes :
         LET f1 == setupAfterReset(Top(i), o1)
             f2 == IF f1.pc = "account" THEN setupAfterAccount(f1, o2) ELSE f1
             f3 == IF f2.pc = "storage" THEN setupAfterStorage(f2, o3) ELSE f2
             n == Cost(o1, FALSE) + Cost(o2, FALSE) + Cost(o3, FALSE)
         IN /\ f1.pc # "account" => o2 = "ok"
            /\ f2.pc # "storage" => o3 = "ok"
            /\ faults + n <= MaxFaults
            /\ faults' = faults + n
            /\ engine' = EngineAfterReset(engine, o1)
            /\ tasks' = ReplaceTop(i, <<f3>>)
    /\ UNCHANGED <<LDKIsStayingSynced, paymentSubscription, onChannelSubscription,
                   listeners, store, width, probe,
                   watch, txCall, hook, last>>

\* line 240-263: lm.start() is answered.
SetupStart(i) ==
    /\ Running(i, "setupLdk", "start")
    /\ \E o \in Outcomes :
         /\ Allowed(o, FALSE)
         /\ faults' = faults + Cost(o, FALSE)
         /\ engine' = EngineAfterStart(engine, o)
         /\ tasks' = ReplaceTop(i, <<setupAfterStart(Top(i), o)>>)
    /\ UNCHANGED <<LDKIsStayingSynced, paymentSubscription, onChannelSubscription,
                   listeners, store, width, probe,
                   watch, txCall, hook, last>>

\* line 266-269: ldk.nodeId() is answered.
SetupNodeId(i) ==
    /\ Running(i, "setupLdk", "nodeId")
    /\ \E o \in Outcomes :
         /\ Allowed(o, TRUE)
         /\ faults' = faults + Cost(o, TRUE)
         /\ tasks' = ReplaceTop(i, <<setupAfterNodeId(Top(i), o)>>)
    /\ UNCHANGED <<LDKIsStayingSynced, paymentSubscription, onChannelSubscription,
                   listeners, engine, store, width, probe,
                   watch, txCall, hook, last>>

\* line 270-286: node id and version are recorded; then the sync pass begins,
\* or the events are subscribed to and setupLdk returns.
SetupRecord(i) ==
    /\ Running(i, "setupLdk", "recordId")
    /\ \E o1, o2 \in Outcomes :
         LET f1 == setupAfterRecordId(Top(i), o1)
             s1 == updateLdkNodeId(store, o1)
             fs == IF f1.pc = "recordVersion"
                   THEN setupAfterRecordVersion(f1, o2) ELSE <<f1>>
             n == Cost(o1, FALSE) + Cost(o2, FALSE)
         IN /\ f1.pc # "recordVersion" => o2 = "ok"
            /\ faults + n <= MaxFaults
            /\ faults' = faults + n
            /\ store' = IF f1.pc = "recordVersion" THEN updateLdkVersion(s1, o2) ELSE s1
            /\ tasks' = ReplaceTop(i, fs)
            /\ IF Subscribes(fs[1]) THEN subscribeToPayments ELSE NoSubscribe
    /\ UNCHANGED <<LDKIsStayingSynced, engine, width, probe,
                   watch, txCall, hook, last>>

\* line 280-286: the sync pass has returned.
SetupRefreshReturns(i) ==
    /\ Awaiting(i, "setupLdk", "awaitRefresh", "refreshLdk")
    /\ LET f == setupAfterRefresh(Under(i), Top(i).res)
       IN /\ tasks' = PopResume(i, <<f>>)
          /\ IF Subscribes(f) THEN subscribeToPayments ELSE NoSubscribe
    /\ UNCHANGED <<LDKIsStayingSynced, engine, store, faults, width, probe,
                   watch, txCall, hook, last>>

----------------------------------------------------------------------------
(* keepLdkSynced *)

\* line 140-147: refreshLdk has returned to the loop.
KeepRefreshReturns(i) ==
    /\ Awaiting(i, "keepLdkSynced", "awaitRefresh", "refreshLdk")
    /\ tasks' = PopResume(i, keepAfterRefresh(Under(i), Top(i).res))
    /\ LDKIsStayingSynced' = FlagAfterRefresh(LDKIsStayingSynced, Top(i).res)
    /\ UNCHANGED <<paymentSubscription, onChannelSubscription, listeners, engine,
                   store, faults, width, probe,
                   watch, txCall, hook, last>>

\* line 147, 139-140: the sleep is over.
KeepWake(i) ==
    /\ Running(i, "keepLdkSynced", "sleep")
    /\ Top(i).attempts < MaxAttempts
    /\ tasks' = ReplaceTop(i, keepAfterSleep(Top(i)))
    /\ UNCHANGED <<LDKIsStayingSynced, paymentSubscription, onChannelSubscription,
                   listeners, engine, store, faults, width, probe,
                   watch, txCall, hook, last>>

----------------------------------------------------------------------------

Next ==
    \/ CallSetupLdk
    \/ CallRefreshLdk
    \/ CallKeepLdkSynced
    \/ EmitNewChannel
    \/ \E i \in Slots : Settle(i)
    \/ \E i \in Slots : RefreshProbe(i)
    \/ \E i \in Slots : RefreshReset(i)
    \/ \E i \in Slots : RefreshSetupReturns(i)
    \/ \E i \in Slots : RefreshSync(i)
    \/ \E i \in Slots : RefreshStore(i)
    \/ \E i \in Slots : SetupPrepare(i)
    \/ \E i \in Slots : SetupStart(i)
    \/ \E i \in Slots : SetupNodeId(i)
    \/ \E i \in Slots : SetupRecord(i)
    \/ \E i \in Slots : SetupRefreshReturns(i)
    \/ \E i \in Slots : KeepRefreshReturns(i)
    \/ \E i \in Slots : KeepWake(i)

Spec == Init /\ [][Next]_vars

\* The same program with room for calls that race each other.
InitRace ==
    /\ LDKIsStayingSynced = FALSE
    /\ paymentSubscription = "undefined"
    /\ onChannelSubscription = "undefined"
    /\ listeners = [payment |-> 0, channel |-> 0]
    /\ engine = "STOPPED"
    /\ store = InitialStore
    /\ tasks = [i \in AllSlots |-> <<>>]
    /\ faults = 0
    /\ width = MaxRaceTasks
    /\ probe = ProbeIdle
    /\ watch = WatchIdle
    /\ txCall = TxIdle
    /\ hook = HookIdle
    /\ last = NoCall

SpecRace == InitRace /\ [][Next]_vars

----------------------------------------------------------------------------
(* One setupLdk or refreshLdk call at a time, next to the keepLdkSynced loop *)
(* that refreshLdk starts and does not await (line 71).  Every call that is  *)
(* awaited returns, and a continuation that can run does run.                *)

\* No call of the app is in flight: a chain is free or is a keepLdkSynced loop.
NoUserCall ==
    \A i \in Slots : IF tasks[i] = <<>> THEN TRUE ELSE tasks[i][1].fn = "keepLdkSynced"

CallSetupLdkAlone == NoUserCall /\ CallSetupLdk

CallRefreshLdkAlone == NoUserCall /\ CallRefreshLdk

NextTermination ==
    \/ CallSetupLdkAlone
    \/ CallRefreshLdkAlone
    \/ \E i \in Slots : Settle(i)
    \/ \E i \in Slots : RefreshProbe(i)
    \/ \E i \in Slots : RefreshReset(i)
    \/ \E i \in Slots : RefreshSetupReturns(i)
    \/ \E i \in Slots : RefreshSync(i)
    \/ \E i \in Slots : RefreshStore(i)
    \/ \E i \in Slots : SetupPrepare(i)
    \/ \E i \in Slots : SetupStart(i)
    \/ \E i \in Slots : SetupNodeId(i)
    \/ \E i \in Slots : SetupRecord(i)
    \/ \E i \in Slots : SetupRefreshReturns(i)
    \/ \E i \in Slots : KeepRefreshReturns(i)
    \/ \E i \in Slots : KeepWake(i)

\* Each await of slot i is resumed once what it awaits has settled.
Resumed(i) ==
    /\ WF_vars(Settle(i))
    /\ WF_vars(RefreshProbe(i))
    /\ WF_vars(RefreshReset(i))
    /\ WF_vars(RefreshSetupReturns(i))
    /\ WF_vars(RefreshSync(i))
    /\ WF_vars(RefreshStore(i))
    /\ WF_vars(SetupPrepare(i))
    /\ WF_vars(SetupStart(i))
    /\ WF_vars(SetupNodeId(i))
    /\ WF_vars(SetupRecord(i))
    /\ WF_vars(SetupRefreshReturns(i))
    /\ WF_vars(KeepRefreshReturns(i))
    /\ WF_vars(KeepWake(i))

SpecTermination ==
    InitRace /\ [][NextTermination]_vars /\ \A i \in AllSlots : Resumed(i)

----------------------------------------------------------------------------
(* isLdkRunning against the clock.  The engine is stopped or running; the    *)
(* probe's ldk.nodeId() settles at some time, or not before the timer.       *)

InitProbe ==
    /\ LDKIsStayingSynced = FALSE
    /\ paymentSubscription = "undefined"
    /\ onChannelSubscription = "undefined"
    /\ listeners = [payment |-> 0, channel |-> 0]
    /\ engine \in {"STOPPED", "RUNNING"}
    /\ store = InitialStore
    /\ tasks = [i \in AllSlots |-> <<>>]
    /\ faults = 0
    /\ width = MaxTasks
    /\ probe = ProbeIdle
    /\ watch = WatchIdle
    /\ txCall = TxIdle
    /\ hook = HookIdle
    /\ last = NoCall

ProbeFrame == UNCHANGED <<LDKIsStayingSynced, paymentSubscription, onChannelSubscription,
                          listeners, engine, store, tasks, faults, width,
                          watch, txCall, hook, last>>

\* line 97-98: isLdkRunning is called; getNodeId is started and the timer is set.
ProbeCall ==
    /\ probe.phase \in {"idle", "returned"}
    /\ probe.calls < MaxProbes
    /\ probe' = [ProbeIdle EXCEPT !.phase = "pending", !.calls = probe.calls + 1]
    /\ ProbeFrame

\* Time passes while the caller waits; the timer of promiseTimeout fires when
\* ProbeTimeoutMs have elapsed, so no more time passes before it has.
ProbeTick ==
    /\ probe.phase = "pending"
    /\ probe.elapsed < ProbeTimeoutMs
    /\ probe' = [probe EXCEPT !.elapsed =
                    IF @ + TickMs > ProbeTimeoutMs THEN ProbeTimeoutMs ELSE @ + TickMs]
    /\ ProbeFrame

\* line 157-160, 98-103: ldk.nodeId() settles before the timer has fired.
ProbeAnswer ==
    /\ probe.phase = "pending"
    /\ \E o \in Outcomes :
         /\ o = "ok" => EngineUp(engine)
         /\ probe' = [probe EXCEPT
                !.phase = "returned",
                !.answer = o,
                !.answeredAt = probe.elapsed,
                !.result = isLdkRunningReturn(promiseTimeout(FALSE, getNodeId(o))),
                !.returnedAt = probe.elapsed]
    /\ ProbeFrame

\* line 98-103: the timer fires first; promiseTimeout resolves without an answer.
ProbeTimeout ==
    /\ probe.phase = "pending"
    /\ probe.elapsed = ProbeTimeoutMs
    /\ probe' = [probe EXCEPT
           !.phase = "returned",
           !.timedOut = TRUE,
           !.result = isLdkRunningReturn(promiseTimeout(TRUE, "none")),
           !.returnedAt = probe.elapsed]
    /\ ProbeFrame

\* ldk.nodeId() settles after isLdkRunning has returned: nobody looks at it.
ProbeLateAnswer ==
    /\ probe.phase = "returned"
    /\ probe.timedOut
    /\ probe.answer = "none"
    /\ \E o \in Outcomes :
         /\ o = "ok" => EngineUp(engine)
         /\ probe' = [probe EXCEPT !.answer = o, !.answeredAt = ProbeTimeoutMs + TickMs]
    /\ ProbeFrame

NextProbe ==
    \/ ProbeCall
    \/ ProbeTick
    \/ ProbeAnswer
    \/ ProbeTimeout
    \/ ProbeLateAnswer

SpecProbe == InitProbe /\ [][NextProbe]_vars


----------------------------------------------------------------------------
(* _getTransactionData over the answers of electrum and of the block-header  *)
(* lookup.                                                                   *)

TxFrame == UNCHANGED <<LDKIsStayingSynced, paymentSubscription, onChannelSubscription,
                       listeners, engine, store, tasks, faults, width, probe, watch,
                       hook, last>>

\* line 298-317: _getTransactionData is called and awaits electrum.getTransactions.
TxCall ==
    /\ txCall.pc \in {"idle", "returned"}
    /\ txCall' = [TxIdle EXCEPT !.pc = "getTransactions"]
    /\ TxFrame

\* line 317-339
TxResponse ==
    /\ txCall.pc = "getTransactions"
    /\ \E a \in TxAnswers : txCall' = txAfterResponse(txCall, a[1], a[2])
    /\ TxFrame

\* line 336-351
TxBlockHex ==
    /\ txCall.pc = "getBlockHex"
    /\ \E o \in Outcomes : txCall' = txAfterBlockHex(txCall, o)
    /\ TxFrame

NextTxData ==
    \/ TxCall
    \/ TxResponse
    \/ TxBlockHex

SpecTxData == Init /\ [][NextTxData]_vars

----------------------------------------------------------------------------
(* checkWatchTxs over a watch-list and the histories the chain answers with. *)

InitWatch ==
    /\ LDKIsStayingSynced = FALSE
    /\ paymentSubscription = "undefined"
    /\ onChannelSubscription = "undefined"
    /\ listeners = [payment |-> 0, channel |-> 0]
    /\ engine = "RUNNING"
    /\ store = InitialStore
    /\ tasks = [i \in AllSlots |-> <<>>]
    /\ faults = 0
    /\ width = MaxTasks
    /\ probe = ProbeIdle
    /\ txCall = TxIdle
    /\ hook = HookIdle
    /\ \E l \in WatchLists, h \in Histories :
          watch = [WatchIdle EXCEPT !.watchTxs = l, !.history = h]
    /\ last = NoCall

WatchFrame == UNCHANGED <<LDKIsStayingSynced, paymentSubscription, onChannelSubscription,
                          listeners, engine, store, tasks, faults, width, probe,
                          txCall, hook, last>>

\* line 388-391: checkWatchTxs is called.
WatchCall ==
    /\ watch.pc = "idle"
    /\ watch' = [watch EXCEPT !.pc = "scan", !.k = 1]
    /\ WatchFrame

\* line 392: the entry's script-pubkey has been checked in this pass.
WatchSkip ==
    /\ watch.pc = "scan"
    /\ watch.k <= Len(watch.watchTxs)
    /\ ~watchNotChecked(watch)
    /\ watch' = [watch EXCEPT !.k = @ + 1]
    /\ WatchFrame

\* line 392-408: the entry's script-pubkey is new: its history is fetched.
WatchFetch ==
    /\ watch.pc = "scan"
    /\ watch.k <= Len(watch.watchTxs)
    /\ watchNotChecked(watch)
    /\ watch' = watchAfterHistory(watch)
    /\ WatchFrame

\* line 398-404: the transaction is reported to the engine.
WatchConfirm ==
    /\ watch.pc = "report"
    /\ \E txData \in TxDataResults, o \in Outcomes :
         watch' = watchAfterConfirm(watch, txData, o)
    /\ WatchFrame

\* line 410: the watch-list is exhausted.
WatchReturnFalse ==
    /\ watch.pc = "scan"
    /\ watch.k > Len(watch.watchTxs)
    /\ watch' = [watch EXCEPT !.pc = "returned", !.result = "false"]
    /\ WatchFrame

NextWatch ==
    \/ WatchCall
    \/ WatchSkip
    \/ WatchFetch
    \/ WatchConfirm
    \/ WatchReturnFalse

SpecWatch == InitWatch /\ [][NextWatch]_vars

----------------------------------------------------------------------------
(* The store's invoice list under its transitions. *)

StoreFrame == UNCHANGED <<LDKIsStayingSynced, paymentSubscription, onChannelSubscription,
                          listeners, engine, tasks, faults, width, probe, watch, txCall, hook>>

\* The invoices the app creates (createLightningInvoice), just created.
NewInvoices == {InvoiceOf(h, EngineNodeId, ts, exp) :
                    h \in Hashes, ts \in Timestamps, exp \in Expiries}

\* Date.now(), in milliseconds.
Clock == {t * 500 : t \in 0..MaxClock}

DispatchAddInvoice ==
    /\ Len(store.invoices) < MaxInvoices
    /\ \E inv \in NewInvoices :
         /\ store' = addInvoice(store, inv)
         /\ last' = Dispatched("addInvoice", inv)
    /\ StoreFrame

DispatchUpdateInvoice ==
    /\ \E h \in Hashes :
         LET payload == [payment_hash |-> h, modified_request |-> "lnbc-note"]
         IN /\ store' = updateInvoice(store, payload)
            /\ last' = Dispatched("updateInvoice", payload)
    /\ StoreFrame

DispatchRemoveInvoice ==
    /\ \E h \in Hashes :
         /\ store' = removeInvoice(store, h)
         /\ last' = Dispatched("removeInvoice", h)
    /\ StoreFrame

DispatchRemoveExpiredInvoices ==
    /\ \E dateNow \in Clock :
         /\ store' = removeExpiredInvoices(store, dateNow)
         /\ last' = Dispatched("removeExpiredInvoices", dateNow)
    /\ StoreFrame

\* The index is one of the list, or the list's length.
DispatchUpdateInvoices ==
    /\ \E index \in 0..Len(store.invoices), inv \in NewInvoices :
         LET payload == [index |-> index, invoice |-> inv]
         IN /\ index < MaxInvoices
            /\ store' = updateInvoices(store, payload)
            /\ last' = Dispatched("updateInvoices", payload)
    /\ StoreFrame

NextInvoices ==
    \/ DispatchAddInvoice
    \/ DispatchUpdateInvoices
    \/ DispatchUpdateInvoice
    \/ DispatchRemoveInvoice
    \/ DispatchRemoveExpiredInvoices

SpecInvoices == Init /\ [][NextInvoices]_vars

----------------------------------------------------------------------------
(* The store's payments under its transitions. *)

\* The invoices payments are made of, as created and with a note attached.
PaidInvoices ==
    {[InvoiceOf(h, payee, 0, 1) EXCEPT !.to_str = req] :
        h \in Hashes, payee \in PubKeys, req \in {"lnbc", "lnbc-note"}}

\* A TLightningPayment payload may carry a type or not.
PaymentPayloads == [invoice : PaidInvoices, type : {"absent", "received", "sent"}]

DispatchSetNodeId ==
    /\ \E id \in PubKeys :
         /\ store' = setNodeId(store, id)
         /\ last' = Dispatched("setNodeId", id)
    /\ StoreFrame

DispatchAddPayment ==
    /\ \E payload \in {q \in PaymentPayloads : q.type = "absent" /\ q.invoice.to_str = "lnbc"} :
         /\ store' = addPayment(store, payload)
         /\ last' = Dispatched("addPayment", payload)
    /\ StoreFrame

DispatchUpdatePayment ==
    /\ \E payload \in PaymentPayloads :
         /\ store' = updatePayment(store, payload)
         /\ last' = Dispatched("updatePayment", payload)
    /\ StoreFrame

NextPayments ==
    \/ DispatchSetNodeId
    \/ DispatchAddPayment
    \/ DispatchUpdatePayment

SpecPayments == Init /\ [][NextPayments]_vars

----------------------------------------------------------------------------
(* The store's invoices and payments together: invoices are created, paid   *)
(* (the payment is added for an invoice of the list, as                     *)
(* handlePaymentSubscription does), removed and pruned.                     *)

DispatchAddPaymentOfInvoice ==
    /\ \E h \in Hashes :
         LET invoice == getPendingInvoice(store, h)
         IN /\ invoice # <<>>
            /\ store' = addPaymentHelper(store, invoice[1])
            /\ last' = Dispatched("addPayment", [invoice |-> invoice[1], type |-> "absent"])
    /\ StoreFrame

NextLedger ==
    \/ DispatchAddInvoice
    \/ DispatchAddPaymentOfInvoice
    \/ DispatchRemoveInvoice
    \/ DispatchRemoveExpiredInvoices

SpecLedger == Init /\ [][NextLedger]_vars

----------------------------------------------------------------------------
(* The store's contacts under its transitions. *)

\* The contacts the app creates: a fresh id, an alias, no identifiers list.
NewContacts == {ContactOf(id, "ann", FALSE, <<>>) : id \in ContactIds}

\* updateContact payloads: any of id, alias and identifiers may be missing.
ContactUpdates ==
    {ContactOf(id, alias, has, ids) :
        id \in ContactIds \cup {"absent"}, alias \in {"bob", "absent"},
        has \in BOOLEAN, ids \in SeqsUpTo(Identifiers, 1)}

DispatchAddContact ==
    /\ Len(store.contacts) < Cardinality(ContactIds)
    /\ \E c \in NewContacts :
         /\ \A n \in 1..Len(store.contacts) : store.contacts[n].id # c.id
         /\ store' = addContact(store, c)
         /\ last' = Dispatched("addContact", c)
    /\ StoreFrame

DispatchUpdateContact ==
    /\ \E contactId \in ContactIds \cup {""}, u \in ContactUpdates :
         LET payload == [contactId |-> contactId, updatedContact |-> u]
         IN /\ u.hasIdentifiers \/ u.identifiers = <<>>
            /\ \A n \in 1..Len(store.contacts) :
                  Len(store.contacts[n].identifiers) + Len(u.identifiers) <= MaxIdentifiers
            /\ store' = updateContact(store, payload)
            /\ last' = Dispatched("updateContact", payload)
    /\ StoreFrame

NextContacts ==
    \/ DispatchAddContact
    \/ DispatchUpdateContact

SpecContacts == Init /\ [][NextContacts]_vars

----------------------------------------------------------------------------
(* The store's channels under updateChannels. *)

ChannelIds == {"ch1", "ch2"}

\* Partial<LightningNodeModelType>: some channels by id, and a list of open ids.
ChannelMaps == UNION {[D -> {"open", "closed"}] : D \in SUBSET ChannelIds}

ChannelPayloads == [channels : ChannelMaps,
                    openChannelIds : SeqsUpTo(ChannelIds, MaxChannelIds)]

DispatchUpdateChannels ==
    /\ \E payload \in ChannelPayloads :
         /\ store' = updateChannels(store, payload)
         /\ last' = Dispatched("updateChannels", payload)
    /\ StoreFrame

NextChannels == DispatchUpdateChannels

SpecChannels == Init /\ [][NextChannels]_vars

----------------------------------------------------------------------------
(* The store's contacts as the contact bottom sheets drive them. *)

SheetFrame == UNCHANGED <<LDKIsStayingSynced, paymentSubscription, onChannelSubscription,
                          listeners, engine, tasks, faults, width, probe, watch, txCall>>

\* A screen renders the hook: with a contact of the store as its props, or none.
MountHook ==
    /\ \E c \in ContactIdsOf(store) \cup {"undefined"},
          contactId \in UuidContactIds \ ContactIdsOf(store),
          addressId \in UuidAddressIds \ AddressIdsOf(store) :
         hook' = hookMounted(c, contactId, addressId)
    /\ UNCHANGED <<store, last>>
    /\ SheetFrame

\* line 98-116
SaveNewContact ==
    /\ hook.mounted
    /\ Len(store.contacts) < MaxContacts
    /\ store' = addContact(store, newContactPayload(hook))
    /\ last' = Dispatched("addContact", newContactPayload(hook))
    /\ UNCHANGED hook
    /\ SheetFrame

\* line 164-183
SaveEditedContact ==
    /\ hook.mounted
    /\ hook.updatingContact # "undefined"
    /\ store' = updateContact(store, editContactPayload(hook))
    /\ last' = Dispatched("updateContact", editContactPayload(hook))
    /\ UNCHANGED hook
    /\ SheetFrame

\* line 250-284
SaveAddress ==
    /\ hook.mounted
    /\ hook.updatingContact # "undefined"
    /\ \A n \in 1..Len(store.contacts) :
          Len(store.contacts[n].identifiers) < MaxIdentifiers
    /\ store' = updateContact(store, addAddressPayload(hook, store))
    /\ last' = Dispatched("updateContact", addAddressPayload(hook, store))
    /\ UNCHANGED hook
    /\ SheetFrame

\* line 360-367
PressDeleteContact ==
    /\ hook.mounted
    /\ hook.updatingContact # "undefined"
    /\ store' = deleteContact(store, hook.updatingContact)
    /\ last' = Dispatched("deleteContact", hook.updatingContact)
    /\ UNCHANGED hook
    /\ SheetFrame

\* An address of a contact is deleted.
DispatchDeleteContactAddress ==
    /\ \E contactId \in ContactIdsOf(store), addressId \in UuidAddressIds :
         LET payload == [contactId |-> contactId, addressId |-> addressId]
         IN /\ store' = deleteContactAddress(store, payload)
            /\ last' = Dispatched("deleteContactAddress", payload)
    /\ UNCHANGED hook
    /\ SheetFrame

NextSheets ==
    \/ MountHook
    \/ SaveNewContact
    \/ SaveEditedContact
    \/ SaveAddress
    \/ PressDeleteContact
    \/ DispatchDeleteContactAddress

SpecSheets == Init /\ [][NextSheets]_vars

----------------------------------------------------------------------------
(* The coordinator with the engine's events and direct subscribeToPayments   *)
(* calls; the store holds the invoices the app has created.                  *)

EventInvoices == {InvoiceOf(h, payee, 0, 1) : h \in Hashes, payee \in PubKeys}

InitEvents ==
    /\ LDKIsStayingSynced = FALSE
    /\ paymentSubscription = "undefined"
    /\ onChannelSubscription = "undefined"
    /\ listeners = [payment |-> 0, channel |-> 0]
    /\ engine = "STOPPED"
    /\ \E invoices \in SeqsUpTo(EventInvoices, MaxEventInvoices) :
          store = [InitialStore EXCEPT !.invoices = invoices]
    /\ tasks = [i \in AllSlots |-> <<>>]
    /\ faults = 0
    /\ width = MaxTasks
    /\ probe = ProbeIdle
    /\ watch = WatchIdle
    /\ txCall = TxIdle
    /\ hook = HookIdle
    /\ last = NoCall

\* The app calls subscribeToPayments.
CallSubscribeToPayments ==
    /\ subscribeToPayments
    /\ last' = [op |-> "subscribeToPayments", payload |-> "none", before |-> listeners]
    /\ UNCHANGED <<LDKIsStayingSynced, engine, store, tasks, faults, width, probe, watch, txCall, hook>>

\* line 484-489, 440-468: the engine emits channel_manager_payment_claimed; the
\* listener runs handlePaymentSubscription up to its await.
EmitPaymentClaimed ==
    /\ listeners.payment > 0
    /\ engine = "RUNNING"
    /\ \E h \in Hashes :
         LET invoice == getPendingInvoice(store, h)
         IN /\ IF invoice # <<>>
               THEN /\ FreeSlots # {}
                    /\ store' = addPaymentHelper(store, invoice[1])
                    /\ tasks' = [tasks EXCEPT ![NextFree] = handlePaymentSubscriptionCall]
               ELSE UNCHANGED <<store, tasks>>
            /\ last' = [op |-> "payment_claimed", payload |-> h, before |-> store]
    /\ UNCHANGED <<LDKIsStayingSynced, paymentSubscription, onChannelSubscription,
                   listeners, engine, faults, width, probe, watch, txCall, hook>>

\* line 466-467: the handler's refreshLdk has returned; the handler returns.
PaymentRefreshReturns(i) ==
    /\ Awaiting(i, "handlePaymentSubscription", "awaitRefresh", "refreshLdk")
    /\ tasks' = PopResume(i, <<Return(Did(Under(i), "refreshLdk"), "void")>>)
    /\ UNCHANGED <<LDKIsStayingSynced, paymentSubscription, onChannelSubscription,
                   listeners, engine, store, faults, width, probe, watch, txCall, hook, last>>

NextEvents ==
    \/ Next
    \/ CallSubscribeToPayments
    \/ EmitPaymentClaimed
    \/ \E i \in Slots : PaymentRefreshReturns(i)

SpecEvents == InitEvents /\ [][NextEvents]_vars

----------------------------------------------------------------------------
(* The coordinator with its events, where the app also tears the             *)
(* subscriptions down: index.ts:506-509                                      *)

\* unsubscribeFromLDKSubscriptions, line 506-509: both listeners are removed;
\* neither module variable is assigned.
unsubscribeFromLDKSubscriptions ==
    /\ listeners' = [payment |-> removed(paymentSubscription, listeners.payment),
                     channel |-> removed(onChannelSubscription, listeners.channel)]
    /\ UNCHANGED <<paymentSubscription, onChannelSubscription>>

\* The app calls unsubscribeFromLDKSubscriptions.
CallUnsubscribeFromLDKSubscriptions ==
    /\ unsubscribeFromLDKSubscriptions
    /\ last' = [op |-> "unsubscribeFromLDKSubscriptions", payload |-> "none",
                before |-> listeners]
    /\ UNCHANGED <<LDKIsStayingSynced, engine, store, tasks, faults, width, probe,
                   watch, txCall, hook>>

NextTeardown ==
    \/ NextEvents
    \/ CallUnsubscribeFromLDKSubscriptions

SpecTeardown == InitEvents /\ [][NextTeardown]_vars

----------------------------------------------------------------------------
(* The calls in flight, for the properties below *)

Range(q) == {q[k] : k \in 1..Len(q)}

Frames == UNION {Range(tasks[i]) : i \in AllSlots}

FramesOf(fn) == {f \in Frames : f.fn = fn}

Returned(f) == f.pc = "done"

\* The chains whose bottom frame is a keepLdkSynced loop that has not returned.
ActiveLoops == {i \in AllSlots : tasks[i] # <<>> /\ tasks[i][1].fn = "keepLdkSynced"
                                  /\ ~Returned(tasks[i][1])}

\* The refreshLdk calls of chain i that its keepLdkSynced loop made and has not
\* yet seen return.
LoopCallsInFlight(i) ==
    Cardinality({k \in 1..Len(tasks[i]) :
                   tasks[i][k].fn = "refreshLdk" /\ tasks[i][k].caller = "keepLdkSynced"})

\* Whether the names of q occur in steps in this order, each after the one before.
RECURSIVE InOrder(_, _)
InOrder(steps, q) ==
    IF q = <<>> THEN TRUE
    ELSE IF steps = <<>> THEN FALSE
    ELSE IF Head(steps) = Head(q) THEN InOrder(Tail(steps), Tail(q))
    ELSE InOrder(Tail(steps), q)

\* The last n steps.
Last(steps, n) ==
    IF Len(steps) < n THEN <<>> ELSE SubSeq(steps, Len(steps) - n + 1, Len(steps))

----------------------------------------------------------------------------
(* C1: keepLdkSynced is fail-stop: once a refreshLdk call of the loop has      *)
(* returned a failure, the loop has returned (it makes no further call) and,  *)
(* no other loop having been started, LDKIsStayingSynced is false.            *)
C1_FailStop ==
    \A f \in FramesOf("keepLdkSynced") :
        f.lastRes = "err" =>
            /\ Returned(f)
            /\ ActiveLoops = {} => ~LDKIsStayingSynced

----------------------------------------------------------------------------
(* C2: keepLdkSynced is re-entrant-safe: in every reachable state at most one *)
(* keepLdkSynced loop is active, and while one is active the guard flag is    *)
(* set, also when refreshLdk calls keepLdkSynced after recovering the node.   *)
C2_SingleLoop ==
    /\ Cardinality(ActiveLoops) <= 1
    /\ ActiveLoops # {} => LDKIsStayingSynced

\* A refreshLdk made by the active loop has recovered the node and called
\* keepLdkSynced itself: the call returned at once, the loop is still the only one.
C2_Witness ==
    \E i \in ActiveLoops :
        /\ Len(tasks[i]) = 2
        /\ tasks[i][2].fn = "refreshLdk"
        /\ "keepLdkSynced" \in Range(tasks[i][2].steps)
        /\ \E j \in AllSlots : j # i /\ tasks[j] # <<>>

----------------------------------------------------------------------------
(* C3: the loop's sync passes never overlap: a refreshLdk call of the loop    *)
(* begins only after the call before it has returned and one more sleep has   *)
(* completed, so at most one of the loop's calls is in flight.                *)
C3_LoopSequential ==
    \A i \in AllSlots :
        tasks[i] # <<>> /\ tasks[i][1].fn = "keepLdkSynced" =>
            LET f == tasks[i][1]
            IN /\ f.attempts = f.sleeps + 1
               /\ f.returns \in {f.attempts - 1, f.attempts}
               /\ LoopCallsInFlight(i) = f.attempts - f.returns
               /\ LoopCallsInFlight(i) <= 1

\* The loop's second pass is in flight, after a first pass and a sleep.
C3_Witness ==
    \E i \in AllSlots :
        /\ Len(tasks[i]) >= 2
        /\ tasks[i][1].fn = "keepLdkSynced"
        /\ tasks[i][1].attempts = 2
        /\ tasks[i][1].returns = 1
        /\ tasks[i][1].sleeps = 1
        /\ tasks[i][2].pc = "sync"

----------------------------------------------------------------------------
----------------------------------------------------------------------------
(* C5: lm.syncLdk is called only if the probe found the node running or       *)
(* setupLdk has just returned success; when the node is not running and       *)
(* setupLdk fails, refreshLdk returns failure without calling lm.syncLdk and   *)
(* without refreshing channels or claimable balance.                          *)
SyncCalled(f) == f.pc = "sync" \/ "syncLdk" \in Range(f.steps)

C5_SyncOnlyWhenUp ==
    \A f \in FramesOf("refreshLdk") :
        /\ SyncCalled(f) =>
              \/ f.isRunning = "yes"
              \/ "setupLdk" \in Range(f.steps) /\ "setupLdk" \notin f.fails
        /\ f.isRunning = "no" /\ "setupLdk" \in f.fails =>
              /\ Returned(f) /\ f.res = "err"
              /\ ~SyncCalled(f)
              /\ Range(f.steps) \cap {"updateLightningChannels", "updateClaimableBalance"} = {}

\* The node was not running, setupLdk failed, and refreshLdk has returned.
C5_Witness ==
    \E f \in FramesOf("refreshLdk") :
        /\ f.isRunning = "no"
        /\ "setupLdk" \in f.fails
        /\ Returned(f)

----------------------------------------------------------------------------
(* C6: refreshLdk returns a failure whenever lm.syncLdk or a store refresh    *)
(* step failed, by an err Result or by an exception; it returns success only  *)
(* when both steps succeeded.                                                 *)
C6_RefreshSurfacesFailures ==
    \A f \in FramesOf("refreshLdk") :
        Returned(f) =>
            /\ f.fails \cap {"syncLdk", "updateLightningChannels",
                             "updateClaimableBalance"} # {} => f.res = "err"
            /\ f.res = "ok" =>
                 /\ {"syncLdk", "updateLightningChannels", "updateClaimableBalance"}
                        \subseteq Range(f.steps)
                 /\ f.fails \cap {"syncLdk", "updateLightningChannels",
                                  "updateClaimableBalance"} = {}

----------------------------------------------------------------------------
(* C7: setupLdk returns a failure whenever one of its steps failed (reset,    *)
(* account load, storage path, engine start, node-id query, recording         *)
(* identity and version, the sync pass); it returns success only if every     *)
(* step it executed succeeded.                                                *)
C7_SetupSurfacesFailures ==
    \A f \in FramesOf("setupLdk") :
        Returned(f) => (f.fails # {} <=> f.res = "err")

----------------------------------------------------------------------------
(* C8: whenever setupLdk has returned a failure, the node engine is stopped.  *)
C8_FailedSetupStopsEngine ==
    \A f \in FramesOf("setupLdk") :
        Returned(f) /\ f.res = "err" => engine = "STOPPED"

----------------------------------------------------------------------------
(* C9: if getLdkAccount fails, setupLdk returns failure, never calls          *)
(* lm.start, and the step in which it fails leaves the store's node identity  *)
(* and version, the subscription variables and the engine's listeners as      *)
(* they were.                                                                 *)
AccountFailed == {f \in FramesOf("setupLdk") : "getLdkAccount" \in f.fails}

C9_AccountFailure ==
    [][/\ \A f \in AccountFailed' :
             /\ Returned(f) /\ f.res = "err"
             /\ Range(f.steps) \cap {"setLdkStoragePath", "lm.start", "ldk.nodeId",
                                     "updateLdkNodeId", "updateLdkVersion", "refreshLdk",
                                     "subscribeToPayments"} = {}
       /\ AccountFailed' \ AccountFailed # {} =>
             /\ store' = store
             /\ paymentSubscription' = paymentSubscription
             /\ onChannelSubscription' = onChannelSubscription
             /\ listeners' = listeners]_vars

\* The first setupLdk of the process has failed on the account load: the store
\* holds no node identity and nothing is subscribed.
C9_Witness ==
    /\ AccountFailed # {}
    /\ store.nodeId = "null"
    /\ store.ldkVersion = ""
    /\ paymentSubscription = "undefined"
    /\ listeners = [payment |-> 0, channel |-> 0]


----------------------------------------------------------------------------
(* C10: isLdkRunning returns true exactly when the node-id probe has answered *)
(* ok before the 2 second timer fired; on an err answer, an exception or the  *)
(* timer it returns false; it never raises, and it returns no later than      *)
(* 2 seconds after the call.                                                  *)
C10_ProbeBounded ==
    /\ probe.phase = "pending" => probe.elapsed <= ProbeTimeoutMs
    /\ probe.phase = "returned" =>
         /\ probe.result \in {"true", "false"}
         /\ probe.result = "true" <=>
               /\ ~probe.timedOut
               /\ probe.answer = "ok"
               /\ probe.answeredAt <= ProbeTimeoutMs
         /\ probe.timedOut => probe.returnedAt = ProbeTimeoutMs
         /\ probe.returnedAt <= ProbeTimeoutMs

\* The probe was not answered within the 2 seconds: isLdkRunning has returned
\* false at 2000 ms, and the answer that arrives later changes nothing.
C10_Witness ==
    /\ probe.phase = "returned"
    /\ probe.timedOut
    /\ probe.result = "false"
    /\ probe.returnedAt = ProbeTimeoutMs
    /\ probe.answer = "ok"

----------------------------------------------------------------------------
(* C11: one checkWatchTxs call makes at most one ldk.setTxConfirmed call;     *)
(* once it has made one it scans no further; it has returned true exactly     *)
(* when it made one call and false exactly when it made none.                 *)
C11_OneConfirmPerPass ==
    /\ Len(watch.confirmed) <= 1
    /\ Len(watch.confirmed) = 1 => watch.pc \in {"returned", "rejected"}
    /\ watch.pc = "returned" =>
         /\ watch.result \in {"true", "false"}
         /\ watch.result = "true" <=> Len(watch.confirmed) = 1
         /\ watch.result = "false" <=> Len(watch.confirmed) = 0

\* A watch-list of two scripts of which only the second has an unseen
\* transaction: true is returned after the second script, with one report.
C11_Witness ==
    /\ watch.pc = "returned"
    /\ watch.result = "true"
    /\ watch.fetched = <<"s1", "s2">>
    /\ watch.history["s1"] # <<>>
    /\ watch.confirmed = <<"t3">>

----------------------------------------------------------------------------
(* C12: a transaction is reported only if its txid is in the history of a     *)
(* watched script and not among the watch-list's txids; false is returned if  *)
(* and only if every history entry of every watched script has a txid of the  *)
(* watch-list; no script's history is fetched twice in one pass.              *)
WatchedScripts == {watch.watchTxs[n].script_pubkey : n \in 1..Len(watch.watchTxs)}

WatchListIds == {watch.watchTxs[n].txid : n \in 1..Len(watch.watchTxs)}

AllSeen == \A sc \in WatchedScripts : Range(watch.history[sc]) \subseteq WatchListIds

C12_ReportsOnlyUnseen ==
    /\ \A n \in 1..Len(watch.confirmed) :
          /\ \E sc \in WatchedScripts : watch.confirmed[n] \in Range(watch.history[sc])
          /\ watch.confirmed[n] \notin WatchListIds
    /\ watch.pc = "returned" => (watch.result = "false" <=> AllSeen)
    /\ \A m, n \in 1..Len(watch.fetched) : m # n => watch.fetched[m] # watch.fetched[n]
    /\ Range(watch.fetched) \subseteq WatchedScripts

\* Two watched transactions share a script whose history holds only txids of
\* the watch-list: the history was fetched once and false returned.
C12_Witness ==
    /\ watch.pc = "returned"
    /\ watch.result = "false"
    /\ Len(watch.watchTxs) = 2
    /\ watch.fetched = <<"s1">>
    /\ Len(watch.history["s1"]) = 2

----------------------------------------------------------------------------
(* C19: after removeExpiredInvoices has run at time now (epoch seconds), the  *)
(* invoice list is the list before it restricted to the invoices with         *)
(* timestamp + expiry_time > now, in the same order: no retained invoice has  *)
(* timestamp + expiry_time <= now and no unexpired invoice is dropped.        *)
Unexpired(invoices, now) ==
    {n \in 1..Len(invoices) : invoices[n].timestamp + invoices[n].expiry_time > now}

\* The position in invoices of the j-th unexpired invoice.
NthUnexpired(invoices, now, j) ==
    CHOOSE n \in Unexpired(invoices, now) :
        Cardinality({m \in Unexpired(invoices, now) : m < n}) = j - 1

C19_PrunesExactlyExpired ==
    last.op = "removeExpiredInvoices" =>
        LET now == last.payload \div 1000
            old == last.before.invoices
            new == store.invoices
        IN /\ \A n \in 1..Len(new) : ~(new[n].timestamp + new[n].expiry_time <= now)
           /\ Len(new) = Cardinality(Unexpired(old, now))
           /\ \A j \in 1..Len(new) : new[j] = old[NthUnexpired(old, now, j)]

\* Of two invoices the first expires exactly now and is pruned, the second
\* expires a second later and is kept.
C19_Witness ==
    /\ last.op = "removeExpiredInvoices"
    /\ Len(last.before.invoices) = 2
    /\ last.before.invoices[1].timestamp + last.before.invoices[1].expiry_time
          = last.payload \div 1000
    /\ store.invoices = <<last.before.invoices[2]>>

----------------------------------------------------------------------------
(* C17: addPayment stores, under the invoice's payment hash, a record of that *)
(* invoice whose direction is received if and only if the invoice's           *)
(* payee_pub_key equals the store's nodeId at the time of the call, and sent  *)
(* for every other value, an unset nodeId included; the other payments stay.  *)
C17_DirectionAtCreation ==
    last.op = "addPayment" =>
        LET inv == last.payload.invoice
            h == inv.payment_hash
            old == last.before.payments
        IN /\ DOMAIN store.payments = (DOMAIN old) \cup {h}
           /\ store.payments[h].invoice = inv
           /\ store.payments[h].type \in {"received", "sent"}
           /\ store.payments[h].type = "received" <=>
                 inv.payee_pub_key = last.before.nodeId
           /\ last.before.nodeId = "null" => store.payments[h].type = "sent"
           /\ \A k \in (DOMAIN old) \ {h} : store.payments[k] = old[k]

\* A payment to this node was recorded as received; now one to another node
\* has been recorded as sent.
C17_Witness ==
    /\ last.op = "addPayment"
    /\ last.before.nodeId = EngineNodeId
    /\ DOMAIN store.payments = {"h1", "h2"}
    /\ store.payments["h1"].type = "received"
    /\ store.payments["h2"].type = "sent"
    /\ last.payload.invoice.payment_hash = "h2"

----------------------------------------------------------------------------
(* C18: once a payment record for hash h exists, no later store transition    *)
(* (setNodeId, updatePayment for h, a repeated addPayment for h) changes its  *)
(* direction.                                                                 *)
C18_DirectionNeverChanges ==
    last.op \in {"setNodeId", "addPayment", "updatePayment"} =>
        \A h \in DOMAIN last.before.payments :
            /\ h \in DOMAIN store.payments
            /\ store.payments[h].type = last.before.payments[h].type

----------------------------------------------------------------------------
(* C20: updateContact is an additive merge: the identifier list of the        *)
(* contact whose id is contactId becomes its old list followed by the         *)
(* payload's identifiers (the old list when the payload has none), the scalar *)
(* fields the payload has overwrite the old ones, and every other contact is  *)
(* left unchanged.                                                            *)
C20_AdditiveMerge ==
    last.op = "updateContact" =>
        LET u == last.payload.updatedContact
            old == last.before.contacts
            new == store.contacts
        IN /\ Len(new) = Len(old)
           /\ \A n \in 1..Len(old) :
                IF old[n].id = last.payload.contactId
                THEN /\ new[n].identifiers =
                           old[n].identifiers
                               \o (IF u.hasIdentifiers THEN u.identifiers ELSE <<>>)
                     /\ u.alias # "absent" => new[n].alias = u.alias
                     /\ u.alias = "absent" => new[n].alias = old[n].alias
                     /\ u.id # "absent" => new[n].id = u.id
                     /\ u.id = "absent" => new[n].id = old[n].id
                ELSE new[n] = old[n]

\* A contact with identifiers [a1] was updated with [a2] and a new alias: it
\* holds [a1, a2]; the other contact is as it was.
C20_Witness ==
    /\ last.op = "updateContact"
    /\ Len(store.contacts) = 2
    /\ last.payload.contactId = "c1"
    /\ last.before.contacts[1].id = "c1"
    /\ Len(last.before.contacts[1].identifiers) = 1
    /\ last.before.contacts[1].identifiers[1].id = "a1"
    /\ Len(store.contacts[1].identifiers) = 2
    /\ store.contacts[1].identifiers[2].id = "a2"
    /\ store.contacts[1].alias = "bob"
    /\ last.before.contacts[1].alias = "ann"
    /\ store.contacts[2] = last.before.contacts[2]

----------------------------------------------------------------------------
(* C13: when a payment-claimed event carries hash h and the store holds an    *)
(* invoice with payment_hash h, the store gains a payment keyed h that        *)
(* references such an invoice, received if the invoice's payee_pub_key is the *)
(* store's nodeId and sent otherwise, and the handler, having added the       *)
(* payment, starts a refreshLdk call.                                         *)
HasInvoice(s, h) == \E n \in 1..Len(s.invoices) : s.invoices[n].payment_hash = h

PaymentClaimed == last' # last /\ last'.op = "payment_claimed"

C13_ClaimedPaymentRecorded ==
    [][PaymentClaimed /\ HasInvoice(store, last'.payload) =>
          LET h == last'.payload
          IN /\ h \in DOMAIN store'.payments
             /\ \E n \in 1..Len(store.invoices) :
                   /\ store.invoices[n].payment_hash = h
                   /\ store'.payments[h].invoice = store.invoices[n]
             /\ store'.payments[h].type =
                   (IF store'.payments[h].invoice.payee_pub_key = store.nodeId
                    THEN "received" ELSE "sent")
             /\ \E i \in AllSlots :
                   /\ tasks[i] = <<>>
                   /\ Len(tasks'[i]) = 2
                   /\ tasks'[i][1].fn = "handlePaymentSubscription"
                   /\ tasks'[i][1].pc = "awaitRefresh"
                   /\ InOrder(tasks'[i][1].steps, <<"getPendingInvoice", "addPayment">>)
                   /\ tasks'[i][2].fn = "refreshLdk"
                   /\ tasks'[i][2].caller = "handlePaymentSubscription"
                   /\ tasks'[i][2].pc = "probe"]_vars

\* An invoice payable to this node was claimed: the payment is recorded as
\* received and the handler's refreshLdk has been started.
C13_Witness ==
    /\ last.op = "payment_claimed"
    /\ last.payload \in DOMAIN store.payments
    /\ last.payload \notin DOMAIN last.before.payments
    /\ store.nodeId = EngineNodeId
    /\ store.payments[last.payload].type = "received"
    /\ \E i \in AllSlots :
          /\ Len(tasks[i]) = 2
          /\ tasks[i][1].fn = "handlePaymentSubscription"
          /\ tasks[i][2].pc = "probe"

----------------------------------------------------------------------------
(* C14: when a payment-claimed event carries a hash for which the store holds *)
(* no invoice, the event is dropped: no payment is added, no other store      *)
(* field changes and no refreshLdk call is started.                           *)
C14_UnknownPaymentDropped ==
    [][PaymentClaimed /\ ~HasInvoice(store, last'.payload) =>
          /\ store' = store
          /\ tasks' = tasks]_vars

\* The store holds an invoice, the event was for another hash: nothing was
\* recorded and no call is in flight.
C14_Witness ==
    /\ last.op = "payment_claimed"
    /\ store.invoices # <<>>
    /\ ~HasInvoice(store, last.payload)
    /\ store = last.before
    /\ DOMAIN store.payments = {}
    /\ \A i \in AllSlots : tasks[i] = <<>>

----------------------------------------------------------------------------
(* C15: a new-channel event starts exactly one refreshLdk call, and the       *)
(* handler itself changes nothing in the store.                               *)
StartedBy(caller) ==
    {i \in AllSlots : tasks[i] = <<>> /\ tasks'[i] # <<>> /\ tasks'[i][1].caller = caller}

C15_NewChannelStartsOneSync ==
    [][StartedBy("new_channel") # {} =>
          /\ store' = store
          /\ Cardinality(StartedBy("new_channel")) = 1
          /\ \A i \in StartedBy("new_channel") :
                /\ Len(tasks'[i]) = 1
                /\ tasks'[i][1].fn = "refreshLdk"
                /\ tasks'[i][1].pc = "probe"
          /\ \A i \in AllSlots \ StartedBy("new_channel") : tasks'[i] = tasks[i]]_vars

\* The refreshLdk a new-channel event started has returned success: the
\* channels of the store were refreshed by that pass.
C15_Witness ==
    \E f \in FramesOf("refreshLdk") :
        /\ f.caller = "new_channel"
        /\ Returned(f) /\ f.res = "ok"
        /\ store.channels = EngineChannels

----------------------------------------------------------------------------
(* C16: for any sequence of setupLdk and subscribeToPayments calls, at most   *)
(* one listener per event class is registered with the engine, and a          *)
(* subscribeToPayments call made while subscribed registers nothing.          *)
C16_SubscribedOnce ==
    /\ listeners.payment <= 1
    /\ listeners.channel <= 1
    /\ listeners.payment = 1 <=> paymentSubscription # "undefined"
    /\ listeners.channel = 1 <=> onChannelSubscription # "undefined"
    /\ last.op = "subscribeToPayments" => listeners = [payment |-> 1, channel |-> 1]

\* setupLdk has subscribed, then subscribeToPayments was called again.
C16_Witness ==
    /\ last.op = "subscribeToPayments"
    /\ last.before = [payment |-> 1, channel |-> 1]
    /\ listeners = [payment |-> 1, channel |-> 1]
    /\ store.nodeId = EngineNodeId

----------------------------------------------------------------------------
(* C21: updateChannels is idempotent.  Applying to the store the payload    *)
(* that was just applied leaves the openChannelIds list and the channels    *)
(* map as they are after the first application.                             *)
C21_UpdateChannelsIdempotent ==
    last.op = "updateChannels" =>
        /\ store = updateChannels(last.before, last.payload)
        /\ updateChannels(store, last.payload).openChannelIds = store.openChannelIds
        /\ updateChannels(store, last.payload).channels = store.channels

\* A payload with a channel record and an open id the store did not have has
\* been applied.
C21_Witness ==
    /\ last.op = "updateChannels"
    /\ Len(store.openChannelIds) > Len(last.before.openChannelIds)
    /\ \E id \in DOMAIN last.payload.channels : id \notin DOMAIN last.before.channels

----------------------------------------------------------------------------
(* C22: openChannelIds never holds an id twice, and the ids tracked before  *)
(* an updateChannels call are a prefix of the list after it.                *)
NoDuplicates(list) ==
    \A m, n \in 1..Len(list) : list[m] = list[n] => m = n

IsPrefix(p, q) == Len(p) <= Len(q) /\ SubSeq(q, 1, Len(p)) = p

C22_OpenIdsDeduplicated ==
    /\ NoDuplicates(store.openChannelIds)
    /\ last.op = "updateChannels" => IsPrefix(last.before.openChannelIds, store.openChannelIds)

----------------------------------------------------------------------------
(* C23: the invoice list holds no two entries with the same payment_hash,   *)
(* whatever sequence of addInvoice, updateInvoice, updateInvoices,          *)
(* removeInvoice and removeExpiredInvoices is dispatched.                   *)
UniqueHashes(invoices) ==
    \A m, n \in 1..Len(invoices) :
        invoices[m].payment_hash = invoices[n].payment_hash => m = n

C23_UniqueHashes == UniqueHashes(store.invoices)

\* The caller of addInvoice passes a hash the list does not hold; the caller of
\* updateInvoices passes a hash the list holds nowhere but at the index.
CallerKeepsHashesUnique ==
    /\ last.op = "addInvoice" =>
            \A n \in 1..Len(last.before.invoices) :
                last.before.invoices[n].payment_hash # last.payload.payment_hash
    /\ last.op = "updateInvoices" =>
            \A n \in 1..Len(last.before.invoices) :
                n # last.payload.index + 1 =>
                    last.before.invoices[n].payment_hash # last.payload.invoice.payment_hash

\* What does hold: a transition whose caller keeps the hashes unique takes a
\* list without duplicates to a list without duplicates.
C23_UniqueIfCallersKeepIt ==
    (/\ last.op \in {"addInvoice", "updateInvoice", "updateInvoices", "removeInvoice",
                     "removeExpiredInvoices"}
     /\ UniqueHashes(last.before.invoices)
     /\ CallerKeepsHashesUnique)
        => UniqueHashes(store.invoices)

\* updateInvoices has replaced one of two invoices by one with the same hash.
C23_Witness ==
    /\ last.op = "updateInvoices"
    /\ UniqueHashes(last.before.invoices)
    /\ CallerKeepsHashesUnique
    /\ Len(last.before.invoices) = 2
    /\ last.payload.index = 0
    /\ last.payload.invoice.payment_hash = last.before.invoices[1].payment_hash
    /\ last.payload.invoice # last.before.invoices[1]

----------------------------------------------------------------------------
(* C30: removeInvoice(hash) removes the first invoice of the list with that *)
(* payment_hash and nothing else, and changes nothing when no invoice has   *)
(* it; updateInvoice(hash, s) replaces to_str in the invoices with that     *)
(* hash and changes nothing else.                                           *)
C30_InvoiceFrame ==
    /\ last.op = "removeInvoice" =>
          LET old == last.before.invoices
              new == store.invoices
              matches == {n \in 1..Len(old) : old[n].payment_hash = last.payload}
          IN /\ store = [last.before EXCEPT !.invoices = new]
             /\ IF matches = {}
                THEN new = old
                ELSE \E k \in matches :
                        /\ \A m \in matches : k <= m
                        /\ Len(new) = Len(old) - 1
                        /\ \A m \in 1..(k - 1) : new[m] = old[m]
                        /\ \A m \in k..Len(new) : new[m] = old[m + 1]
    /\ last.op = "updateInvoice" =>
          LET old == last.before.invoices
              new == store.invoices
          IN /\ store = [last.before EXCEPT !.invoices = new]
             /\ Len(new) = Len(old)
             /\ \A n \in 1..Len(old) :
                   IF old[n].payment_hash = last.payload.payment_hash
                   THEN new[n] = [old[n] EXCEPT !.to_str = last.payload.modified_request]
                   ELSE new[n] = old[n]

\* Of two different invoices with the same hash the first has been removed.
C30_Witness ==
    /\ last.op = "removeInvoice"
    /\ Len(last.before.invoices) = 2
    /\ last.before.invoices[1].payment_hash = last.payload
    /\ last.before.invoices[2].payment_hash = last.payload
    /\ last.before.invoices[1] # last.before.invoices[2]
    /\ store.invoices = <<last.before.invoices[2]>>

----------------------------------------------------------------------------
(* C29: every payment of the store is keyed by the payment_hash of an       *)
(* invoice that is in the invoice list: removing or pruning an invoice      *)
(* never leaves its payment behind.                                         *)
C29_PaymentHasInvoice ==
    \A h \in DOMAIN store.payments :
        \E n \in 1..Len(store.invoices) : store.invoices[n].payment_hash = h

----------------------------------------------------------------------------
(* C25: _getTransactionData never fails its caller.  When the lookup fails  *)
(* (electrum.getTransactions rejects or answers with an error, without      *)
(* data, with an error for the transaction or without a result, or the      *)
(* block header cannot be fetched) it returns DefaultTransactionDataShape;  *)
(* otherwise it returns the fetched header, the height, the transaction hex *)
(* and the outputs.                                                         *)
TxLookupError ==
    \/ txCall.response.rejected
    \/ txCall.response.error
    \/ ~txCall.response.hasData
    \/ Len(txCall.response.data) = 0
    \/ txCall.response.data[1].error
    \/ ~txCall.response.data[1].hasResult
    \/ txCall.blockHex \in {"err", "throw"}

C25_TxDataNeverFails ==
    /\ txCall.pc \in {"idle", "getTransactions", "getBlockHex", "returned"}
    /\ txCall.pc = "returned" =>
          IF TxLookupError
          THEN txCall.result = DefaultTransactionDataShape
          ELSE LET fetched == txCall.response.data[1].result
               IN /\ txCall.result.header = HeaderAt(txCall.requested)
                  /\ txCall.result.height = txCall.requested
                  /\ txCall.result.transaction = fetched.hex
                  /\ Len(txCall.result.vout) = Len(fetched.vout)
                  /\ \A k \in 1..Len(fetched.vout) :
                        /\ txCall.result.vout[k].n = fetched.vout[k].n
                        /\ txCall.result.vout[k].value = fetched.vout[k].value
                        /\ txCall.result.vout[k].hex = fetched.vout[k].scriptPubKey.hex

\* An exception was raised inside the function (the response has no result to
\* destructure) and the caller got the default.
C25_Witness ==
    /\ txCall.pc = "returned"
    /\ txCall.via = "catch"
    /\ ~txCall.response.rejected
    /\ ~txCall.response.error
    /\ txCall.response.hasData
    /\ Len(txCall.response.data) = 1
    /\ ~txCall.response.data[1].error
    /\ ~txCall.response.data[1].hasResult
    /\ txCall.result = DefaultTransactionDataShape

----------------------------------------------------------------------------
(* C28: the height _getTransactionData reports is 0 for a transaction       *)
(* without confirmations, and H - c + 1 for one with c >= 1 confirmations   *)
(* at tip height H, with the header of the block at that height.            *)
C28_ConfirmedHeight ==
    (txCall.pc = "returned" /\ txCall.via = "data") =>
        LET c == txCall.response.data[1].result.confirmations
            H == txCall.currentHeight
        IN /\ c = 0 => txCall.result.height = 0
           /\ c >= 1 => /\ txCall.result.height = H - c + 1
                        /\ txCall.result.header = HeaderAt(H - c + 1)

\* A transaction in the block under the tip: two confirmations.
C28_Witness ==
    /\ txCall.pc = "returned"
    /\ txCall.via = "data"
    /\ txCall.response.data[1].result.confirmations = 2
    /\ txCall.currentHeight = MaxTip
    /\ txCall.result.height = MaxTip - 1

----------------------------------------------------------------------------
(* C27: checkWatchTxs returns true only if a confirmation was applied: the  *)
(* transaction's data was fetched (it is not the default), the transaction  *)
(* is confirmed (height > 0) and ldk.setTxConfirmed returned success.       *)
C27_TrueOnlyIfApplied ==
    (watch.pc = "returned" /\ watch.result = "true") =>
        /\ watch.txData # DefaultTransactionDataShape
        /\ watch.txData.height > 0
        /\ watch.confirmRes = "ok"

----------------------------------------------------------------------------
(* C26: lifecycle operations are not mutually exclusive.  The ldk.reset of  *)
(* an event-triggered refreshLdk takes effect whatever the other call       *)
(* chains are doing: when it succeeds the engine is stopped and refreshLdk  *)
(* starts its own setupLdk, also while a setupLdk of another chain is       *)
(* suspended between its own reset and recording the node identity; that    *)
(* chain is left as it is.                                                  *)
InSetupWindow(f) == f.fn = "setupLdk" /\ f.pc \in {"start", "nodeId", "recordId"}

EventRefreshResets(j) ==
    /\ Running(j, "refreshLdk", "reset")
    /\ Top(j).caller = "new_channel"
    /\ tasks'[j] # tasks[j]
    /\ faults' = faults

C26_ResetNotExcluded ==
    [][\A j \in Slots :
          EventRefreshResets(j) =>
              /\ engine' = "STOPPED"
              /\ Len(tasks'[j]) = 2
              /\ tasks'[j][1].pc = "awaitSetup"
              /\ tasks'[j][2] = setupLdkCall("refreshLdk", FALSE)
              /\ \A i \in Slots \ {j} : tasks'[i] = tasks[i]]_vars

\* The events are subscribed to; the app's setupLdk has started the engine and
\* waits for the node id; the refreshLdk of a new_channel event has reset the
\* engine under it and waits for its own setupLdk.
C26_Witness ==
    \E i, j \in Slots :
        /\ i # j
        /\ listeners.channel > 0
        /\ Len(tasks[i]) = 1
        /\ InSetupWindow(Top(i))
        /\ Top(i).caller = "user"
        /\ Top(i).pc = "nodeId"
        /\ Len(tasks[j]) = 2
        /\ tasks[j][1].fn = "refreshLdk"
        /\ tasks[j][1].caller = "new_channel"
        /\ tasks[j][1].pc = "awaitSetup"
        /\ tasks[j][2].fn = "setupLdk"
        /\ engine = "STOPPED"

----------------------------------------------------------------------------
(* C24: the identifiers of each contact have pairwise distinct ids, in      *)
(* every state the contact bottom sheets can bring the store to.            *)
C24_IdentifierIdsUnique ==
    \A n \in 1..Len(store.contacts) :
        \A j, k \in 1..Len(store.contacts[n].identifiers) :
            store.contacts[n].identifiers[j].id = store.contacts[n].identifiers[k].id
                => j = k

----------------------------------------------------------------------------
(* C31: deleteContactAddress(contactId, addressId) completes without an     *)
(* error in every store state the bottom sheets can reach, a state with a   *)
(* contact that was created without an identifiers list included; it        *)
(* removes from the contact with that id every identifier whose id is        *)
(* addressId and leaves the identifiers of every other contact as they were. *)
C31_DeleteAddressCompletes ==
    last.op = "deleteContactAddress" =>
        /\ ~deleteContactAddressThrows(last.before, last.payload)
        /\ Len(store.contacts) = Len(last.before.contacts)
        /\ \A n \in 1..Len(store.contacts) :
              store.contacts[n].identifiers =
                 IF last.before.contacts[n].id = last.payload.contactId
                 THEN withoutAddress(last.before.contacts[n].identifiers,
                                     last.payload.addressId)
                 ELSE last.before.contacts[n].identifiers

----------------------------------------------------------------------------
\* Both module variables hold a subscription whose listener has been removed.
TornDown ==
    /\ paymentSubscription # "undefined"
    /\ onChannelSubscription # "undefined"
    /\ listeners = [payment |-> 0, channel |-> 0]

\* A listener of the coordinator starts handling an event in this step.
EventHandled ==
    \/ last' # last /\ last'.op = "payment_claimed"
    \/ \E i \in AllSlots :
          /\ tasks[i] = <<>>
          /\ tasks'[i] # <<>>
          /\ tasks'[i][1].caller \in {"new_channel", "payment_claimed"}

(* C32: unsubscribeFromLDKSubscriptions removes both listeners and leaves   *)
(* paymentSubscription and onChannelSubscription set; from then on no step,  *)
(* a later subscribeToPayments or setupLdk included, registers a listener,   *)
(* and no payment-claimed or new-channel event is handled again.             *)
C32_TeardownIsFinal ==
    [][/\ (last' # last /\ last'.op = "unsubscribeFromLDKSubscriptions"
            /\ paymentSubscription # "undefined"
            /\ onChannelSubscription # "undefined") => TornDown'
       /\ TornDown => TornDown' /\ ~EventHandled]_vars

\* After the teardown the engine is running and the app has called
\* subscribeToPayments again: still no listener is registered.
C32_Witness ==
    /\ TornDown
    /\ last.op = "subscribeToPayments"
    /\ last.before = [payment |-> 0, channel |-> 0]
    /\ engine = "RUNNING"
    /\ store.nodeId = EngineNodeId

----------------------------------------------------------------------------
\* The call chain of slot i was started by the app and has not returned.
UserCallInFlight(i) ==
    /\ tasks[i] # <<>>
    /\ tasks[i][1].caller = "user"
    /\ tasks[i][1].pc # "done"

\* The call the app made in slot i has returned a Result.
UserCallReturned(i) ==
    /\ Len(tasks[i]) = 1
    /\ tasks[i][1].caller = "user"
    /\ tasks[i][1].pc = "done"
    /\ tasks[i][1].res \in {"ok", "err"}

\* A setupLdk that refreshLdk started runs with shouldRefreshLdk = false and
\* does not call refreshLdk; no chain nests deeper than three calls.
RecursionBounded ==
    \A i \in AllSlots :
        /\ Len(tasks[i]) <= 3
        /\ \A k \in 1..Len(tasks[i]) :
              (tasks[i][k].fn = "setupLdk" /\ tasks[i][k].caller = "refreshLdk") =>
                  /\ ~tasks[i][k].shouldRefreshLdk
                  /\ tasks[i][k].pc # "awaitRefresh"

(* C33: the mutual recursion of setupLdk and refreshLdk is bounded: a        *)
(* setupLdk started from refreshLdk runs with shouldRefreshLdk = false and   *)
(* never calls refreshLdk again, and a single setupLdk or refreshLdk call    *)
(* returns a result whenever every call it awaits returns.                   *)
C33_CallTerminates ==
    /\ []RecursionBounded
    /\ \A i \in AllSlots : UserCallInFlight(i) ~> UserCallReturned(i)

\* A refreshLdk call of the app has found the engine down, has run setupLdk
\* to its end and has returned ok.
C33_Witness ==
    \E i \in AllSlots :
        /\ UserCallReturned(i)
        /\ tasks[i][1].fn = "refreshLdk"
        /\ tasks[i][1].res = "ok"
        /\ "setupLdk" \in Range(tasks[i][1].steps)

====
